---------------------------- MODULE Spec2Model ----------------------------
(***************************************************************************)
(* A model of the UltraOCR Go SDK client (package ultraocr): the session   *)
(* held by a Client value, the request executor with its automatic         *)
(* re-authentication, the signed-URL upload orchestration and the polling  *)
(* loops WaitForJobDone / WaitForBatchDone.                                *)
(*                                                                         *)
(* The transport (HttpClient.Do), the remote service, the filesystem and   *)
(* the clock (time.Now) are the environment: every answer of theirs is an  *)
(* input drawn from a small set.  The clock counts seconds.                *)
(***************************************************************************)
EXTENDS Integers, Sequences, FiniteSets, TLC

VARIABLES
    client,   \* the caller's Client value (the session)
    now,      \* the clock: what time.Now() returns, in seconds
    pc,       \* position of the running operation ("idle" between calls)
    call,     \* arguments and locals of the running (or last) operation
    log,      \* requests handed to HttpClient.Do by the running (or last) operation
    fetched,  \* the transport's answer to the last status fetch
    hist,     \* counters of the running (or last) polling loop: fetches, sleeps, seconds
              \* spent in fetches, seconds the last fetch took
    ret,      \* what the last finished operation returned
    granted,  \* token and origin of the most recent successful authentication
    polls     \* what each status fetch of the running (or last) wait came back with

vars == <<client, now, pc, call, log, fetched, hist, ret, granted, polls>>

---------------------------------------------------------------------------
(* Bounds of the model *)

MaxTimeout == 3       \* Client.Timeout ranges over 0..MaxTimeout seconds
MaxInterval == 2      \* Client.Interval ranges over 1..MaxInterval seconds
MaxLatency == 2       \* a status fetch takes 0..MaxLatency seconds
MaxJobs == 2          \* a batch record lists at most MaxJobs jobs
MaxBatchTimeout == 1  \* Client.Timeout ranges over 0..MaxBatchTimeout in a wait for batch and jobs
MaxPages == 3         \* GetJobs is answered with at most MaxPages pages
MaxMinutes == 2       \* the session clock reaches MaxMinutes minutes
MaxSkew == 1          \* ... sampled up to MaxSkew seconds after a minute boundary
MaxExpires == 1       \* token lifetimes range over 1..MaxExpires minutes
MaxStart == 0         \* a wait is started at clock 0..MaxStart

(* Program constants *)

Minute == 60          \* time.Minute / time.Second
POOLING_INTERVAL == 1
API_TIMEOUT == 30
STATUS_DONE == "done"
STATUS_ERROR == "error"
RESOURCE_JOB == "job"
RESOURCE_BATCH == "batch"
KEY_FACEMATCH == "facematch"
KEY_EXTRA == "extra-document"
FLAG_TRUE == "true"
StatusOK == 200       \* the one status code every caller accepts

ErrNil == "nil"
ErrMountingRequest == "failed to mount request"
ErrDoingRequest == "failed to request"
ErrInvalidStatusCode == "invalid status code"
ErrParsingResponse == "failed to parse response body"
ErrReadFile == "failed to read file"
ErrTimeout == "timeout"

---------------------------------------------------------------------------
(* Values exchanged with the environment *)

Tokens == {"t1", "t2"}
JobIDs == {"j1", "j2"}
BatchIDs == {"b1"}
Statuses == {"processing", STATUS_DONE, STATUS_ERROR}
NoAuth == "none"              \* a request without Authorization header
Background == "ctx"           \* context.Background()
NilCtx == "nil"               \* a nil context: http.NewRequestWithContext rejects it
Ctxs == {Background, NilCtx}

\* JobResultResponse / BatchStatusJobs / BatchStatusResponse / SignedUrlResponse /
\* CreatedResponse, reduced to the fields the client reads or hands back.
JobResultResponse(id, st) == [JobID |-> id, Status |-> st]
ZeroJobResult == JobResultResponse("", "")
BatchStatusJobs(id, st) == [JobID |-> id, Status |-> st]
BatchStatusResponse(id, st, jobs) == [BatchID |-> id, Status |-> st, Jobs |-> jobs]
ZeroBatchStatus == BatchStatusResponse("", "", <<>>)
EmptyMap == [k \in {} |-> ""]
SignedUrlResponse(id, statusURL, urls) == [Id |-> id, StatusURL |-> statusURL, URLs |-> urls]
ZeroSignedUrl == SignedUrlResponse("", "", EmptyMap)
CreatedResponse(id, statusURL) == [Id |-> id, StatusURL |-> statusURL]
ZeroCreated == CreatedResponse("", "")

\* A Go map[string]string read at a key: the zero value "" when the key is absent.
Lookup(m, k) == IF k \in DOMAIN m THEN m[k] ELSE ""

\* maps.Copy(dst, src): src's entries are written over dst's.
MapsCopy(dst, src) ==
    [k \in DOMAIN dst \cup DOMAIN src |-> IF k \in DOMAIN src THEN src[k] ELSE dst[k]]

\* A response body: text json.Unmarshal accepts (valid, decoding to val) or rejects.
Body(v) == [valid |-> TRUE, val |-> v]
Malformed(zero) == [valid |-> FALSE, val |-> zero]

JobBodies == {JobResultResponse(j, s) : j \in JobIDs, s \in Statuses}
JobLists ==
    UNION {[1..n -> {BatchStatusJobs(j, s) : j \in JobIDs, s \in {"processing", STATUS_DONE}}]
           : n \in 0..MaxJobs}
BatchBodies == {BatchStatusResponse(b, s, js) : b \in BatchIDs, s \in Statuses, js \in JobLists}

\* The presigned URLs of the three upload slots; a signed-URL response may
\* leave slots out.
Slots == {"document", "selfie", "extra_document"}
SlotURL == [document |-> "u_document", selfie |-> "u_selfie", extra_document |-> "u_extra"]
SignedBodies ==
    {SignedUrlResponse("j1", "url/j1", [k \in S |-> SlotURL[k]]) : S \in SUBSET Slots}

\* What HttpClient.Do returns: a transport failure, or a status code and a
\* body.  Answers other than 200 are drawn with a malformed or one valid body.
DoFailure(zero) == [failed |-> TRUE, status |-> 0, body |-> Malformed(zero)]
HttpResponses(values, zero) ==
    {DoFailure(zero)} \cup
    [failed : {FALSE}, status : {201, 500},
     body : {Malformed(zero), Body(CHOOSE v \in values : TRUE)}] \cup
    [failed : {FALSE}, status : {StatusOK},
     body : {Body(v) : v \in values} \cup {Malformed(zero)}]

AuthResponses == HttpResponses(Tokens, "")
JobResponses == HttpResponses(JobBodies, ZeroJobResult)
BatchResponses == HttpResponses(BatchBodies, ZeroBatchStatus)
SignedResponses == HttpResponses(SignedBodies, ZeroSignedUrl)
PutResponses == HttpResponses({""}, "")

BASE_URL == "https://ultraocr.apis.nuveo.ai/v2"
AUTH_BASE_URL == "https://auth.apis.nuveo.ai/v2"
DefaultClient == "http.DefaultClient"

\* The Client struct as NewClient returns it.  The requests of this model
\* name an endpoint by its path under BaseURL or AuthBaseURL, and the answers
\* of HttpClient.Do are drawn from the response sets above.
NewClient ==
    [BaseURL |-> BASE_URL, AuthBaseURL |-> AUTH_BASE_URL,
     Token |-> "", ClientID |-> "", ClientSecret |-> "", AutoRefresh |-> FALSE,
     Expires |-> 0, Timeout |-> API_TIMEOUT, Interval |-> POOLING_INTERVAL,
     ExpiresAt |-> 0, HttpClient |-> DefaultClient]

\* One request as it reaches the transport: method, URL (as its path
\* segments), bearer token of the Authorization header, body, query parameters.
Request(method, url, auth, body, params) ==
    [method |-> method, url |-> url, auth |-> auth, body |-> body, params |-> params]

\* Request bodies: none, the JSON text of a value, the bytes of the file at a
\* path, a text given by the caller.
NoBody == [kind |-> "none", data |-> ""]
Marshal(v) == [kind |-> "json", data |-> v]
FileBytes(path) == [kind |-> "bytes", data |-> path]
Text(data) == [kind |-> "text", data |-> data]

---------------------------------------------------------------------------
(* The request executor *)

\* time.Time.After: strictly later.
After(t, u) == t > u

\* http.NewRequestWithContext succeeds (the URLs built here are well formed; a
\* nil context is refused).
Mountable(ctx) == ctx # NilCtx

\* json.Unmarshal of a response body into a value with zero value `zero`.
Unmarshal(body, zero) ==
    IF ~body.valid THEN [err |-> ErrParsingResponse, val |-> zero]
    ELSE [err |-> ErrNil, val |-> body.val]

AuthRequest(clientID, clientSecret, expires) ==
    Request("POST", <<"token">>, NoAuth,
            Marshal([ClientID |-> clientID, ClientSecret |-> clientSecret,
                     ExpiresIn |-> expires]),
            EmptyMap)

\* Authenticate on the Client value c; t is the time at which its answer is
\* handled.  POST {AuthBaseURL}/token without Authorization header; the token
\* and the expiry are written only after every check has passed.  `granted` is
\* the token obtained ("" when none).
AuthenticateNoStatusCheck(ctx, c, t, clientID, clientSecret, expires, resp) ==
    LET req == AuthRequest(clientID, clientSecret, expires)
        res == Unmarshal(resp.body, "")
        fail(e, sent) == [client |-> c, err |-> e, sent |-> sent, granted |-> ""]
    IN  IF ~Mountable(ctx) THEN fail(ErrMountingRequest, <<>>)
        ELSE IF resp.failed THEN fail(ErrDoingRequest, <<req>>)
        ELSE IF res.err # ErrNil THEN fail(ErrParsingResponse, <<req>>)
        ELSE [client |-> [c EXCEPT !.Token = res.val, !.ExpiresAt = t + expires * Minute],
              err |-> ErrNil, sent |-> <<req>>, granted |-> res.val]

AuthenticateExpiresInSeconds(ctx, c, t, clientID, clientSecret, expires, resp) ==
    LET req == AuthRequest(clientID, clientSecret, expires)
        res == Unmarshal(resp.body, "")
        fail(e, sent) == [client |-> c, err |-> e, sent |-> sent, granted |-> ""]
    IN  IF ~Mountable(ctx) THEN fail(ErrMountingRequest, <<>>)
        ELSE IF resp.failed THEN fail(ErrDoingRequest, <<req>>)
        ELSE IF resp.status # StatusOK THEN fail(ErrInvalidStatusCode, <<req>>)
        ELSE IF res.err # ErrNil THEN fail(ErrParsingResponse, <<req>>)
        ELSE [client |-> [c EXCEPT !.Token = res.val, !.ExpiresAt = t + expires],
              err |-> ErrNil, sent |-> <<req>>, granted |-> res.val]

\* An Authenticate that decodes and stores the token before it tests the
\* status code.
AuthenticateStoringEarly(ctx, c, t, clientID, clientSecret, expires, resp) ==
    LET req == AuthRequest(clientID, clientSecret, expires)
        res == Unmarshal(resp.body, "")
        fail(e, sent) == [client |-> c, err |-> e, sent |-> sent, granted |-> ""]
    IN  IF ~Mountable(ctx) THEN fail(ErrMountingRequest, <<>>)
        ELSE IF resp.failed THEN fail(ErrDoingRequest, <<req>>)
        ELSE IF res.err # ErrNil THEN fail(ErrParsingResponse, <<req>>)
        ELSE IF resp.status # StatusOK
        THEN [client |-> [c EXCEPT !.Token = res.val], err |-> ErrInvalidStatusCode,
              sent |-> <<req>>, granted |-> ""]
        ELSE [client |-> [c EXCEPT !.Token = res.val, !.ExpiresAt = t + expires * Minute],
              err |-> ErrNil, sent |-> <<req>>, granted |-> res.val]

Authenticate(ctx, c, t, clientID, clientSecret, expires, resp) ==
    LET req == AuthRequest(clientID, clientSecret, expires)
        res == Unmarshal(resp.body, "")
        fail(e, sent) == [client |-> c, err |-> e, sent |-> sent, granted |-> ""]
    IN  IF ~Mountable(ctx) THEN fail(ErrMountingRequest, <<>>)
        ELSE IF resp.failed THEN fail(ErrDoingRequest, <<req>>)
        ELSE IF resp.status # StatusOK THEN fail(ErrInvalidStatusCode, <<req>>)
        ELSE IF res.err # ErrNil THEN fail(ErrParsingResponse, <<req>>)
        ELSE [client |-> [c EXCEPT !.Token = res.val, !.ExpiresAt = t + expires * Minute],
              err |-> ErrNil, sent |-> <<req>>, granted |-> res.val]

\* autoAuthenticate on the Client value c at time t.
autoAuthenticateAtExpiry(ctx, c, t, authResp) ==
    IF c.AutoRefresh /\ t >= c.ExpiresAt
    THEN Authenticate(ctx, c, t, c.ClientID, c.ClientSecret, c.Expires, authResp)
    ELSE [client |-> c, err |-> ErrNil, sent |-> <<>>, granted |-> ""]

autoAuthenticate(ctx, c, t, authResp) ==
    IF c.AutoRefresh /\ After(t, c.ExpiresAt)
    THEN Authenticate(ctx, c, t, c.ClientID, c.ClientSecret, c.Expires, authResp)
    ELSE [client |-> c, err |-> ErrNil, sent |-> <<>>, granted |-> ""]

\* A request that goes on to send the original request after a failed
\* autoAuthenticate.
requestDespiteAuthError(ctx, c, t, method, url, body, params, authResp, resp) ==
    LET auth == autoAuthenticate(ctx, c, t, authResp)
        copy == auth.client
        req  == Request(method, url, copy.Token, body, params)
        out(e, status, sent) ==
            [err |-> e, status |-> status, body |-> resp.body, sent |-> sent,
             granted |-> auth.granted]
    IN  IF ~Mountable(ctx) THEN out(ErrMountingRequest, 0, auth.sent)
        ELSE IF resp.failed THEN out(ErrDoingRequest, 0, auth.sent \o <<req>>)
        ELSE out(ErrNil, resp.status, auth.sent \o <<req>>)

\* request has a value receiver: it works on a copy of the caller's Client.
\* autoAuthenticate writes the token and the expiry into that copy, the
\* request carries the copy's token, and the copy is dropped on return: the
\* result holds the answer (err, status, body) and, for the record, what was
\* sent and which token was granted on the way.
request(ctx, c, t, method, url, body, params, authResp, resp) ==
    LET auth == autoAuthenticate(ctx, c, t, authResp)
        copy == auth.client
        req  == Request(method, url, copy.Token, body, params)
        out(e, status, sent) ==
            [err |-> e, status |-> status, body |-> resp.body, sent |-> sent,
             granted |-> auth.granted]
    IN  IF auth.err # ErrNil THEN out(auth.err, 0, auth.sent)
        ELSE IF ~Mountable(ctx) THEN out(ErrMountingRequest, 0, auth.sent)
        ELSE IF resp.failed THEN out(ErrDoingRequest, 0, auth.sent \o <<req>>)
        ELSE out(ErrNil, resp.status, auth.sent \o <<req>>)

get(ctx, c, t, url, params, authResp, resp) ==
    request(ctx, c, t, "GET", url, NoBody, params, authResp, resp)

\* What the callers of get and post do with the answer: status 200 required,
\* then the body decoded; on any failure the zero value is handed back.
Decoded(response, zero) ==
    LET res == Unmarshal(response.body, zero)
        out(e, v) == [err |-> e, val |-> v, sent |-> response.sent,
                      granted |-> response.granted]
    IN  IF response.err # ErrNil THEN out(response.err, zero)
        ELSE IF response.status # StatusOK THEN out(ErrInvalidStatusCode, zero)
        ELSE IF res.err # ErrNil THEN out(ErrParsingResponse, zero)
        ELSE out(ErrNil, res.val)

GetJobResult(ctx, c, t, batchID, jobID, authResp, resp) ==
    Decoded(get(ctx, c, t, <<"ocr", "job", "result", batchID, jobID>>, EmptyMap,
                authResp, resp),
            ZeroJobResult)

GetBatchStatus(ctx, c, t, ID, authResp, resp) ==
    Decoded(get(ctx, c, t, <<"ocr", "batch", "status", ID>>, EmptyMap, authResp, resp),
            ZeroBatchStatus)

\* Metadata handed to GenerateSignedUrl: a nil interface, a map[string]any or
\* a []map[string]any with so many entries.
Metadata(type, entries) == [type |-> type, entries |-> entries]
JobMetadatas == {Metadata("map", n) : n \in 0..1}
Metadatas == {Metadata("nil", 0)} \cup {Metadata(ty, n) : ty \in {"map", "list"}, n \in 0..1}

\* isNil: a nil interface, an empty list of maps, an empty map.
isNil(value) ==
    CASE value.type = "nil" -> TRUE
      [] value.type = "list" -> value.entries = 0
      [] value.type = "map" -> value.entries = 0
      [] OTHER -> FALSE

\* post: the body is marshalled and sent when isNil(body) holds, and no body
\* is sent otherwise (json.Marshal does not fail on the values drawn here).
post(ctx, c, t, url, body, params, authResp, resp) ==
    IF isNil(body)
    THEN request(ctx, c, t, "POST", url, Marshal(body), params, authResp, resp)
    ELSE request(ctx, c, t, "POST", url, NoBody, params, authResp, resp)

GenerateSignedUrl(ctx, c, t, service, resource, metadata, params, authResp, resp) ==
    Decoded(post(ctx, c, t, <<"ocr", resource, service>>, metadata, params, authResp, resp),
            ZeroSignedUrl)

---------------------------------------------------------------------------
(* Uploads and job submission *)

\* uploadFile: PUT of the body to the presigned URL, without Authorization
\* header and without passing through request; only status 200 is accepted.
uploadFileStatusIgnored(ctx, url, body, resp) ==
    LET req == Request("PUT", <<url>>, NoAuth, body, EmptyMap)
    IN  IF ~Mountable(ctx) THEN [err |-> ErrMountingRequest, sent |-> <<>>]
        ELSE IF resp.failed THEN [err |-> ErrDoingRequest, sent |-> <<req>>]
        ELSE [err |-> ErrNil, sent |-> <<req>>]

\* An uploadFile that sets the Authorization header as request does.
uploadFileWithBearer(ctx, url, body, resp) ==
    LET req == Request("PUT", <<url>>, "t1", body, EmptyMap)
    IN  IF ~Mountable(ctx) THEN [err |-> ErrMountingRequest, sent |-> <<>>]
        ELSE IF resp.failed THEN [err |-> ErrDoingRequest, sent |-> <<req>>]
        ELSE IF resp.status # StatusOK THEN [err |-> ErrInvalidStatusCode, sent |-> <<req>>]
        ELSE [err |-> ErrNil, sent |-> <<req>>]

uploadFile(ctx, url, body, resp) ==
    LET req == Request("PUT", <<url>>, NoAuth, body, EmptyMap)
    IN  IF ~Mountable(ctx) THEN [err |-> ErrMountingRequest, sent |-> <<>>]
        ELSE IF resp.failed THEN [err |-> ErrDoingRequest, sent |-> <<req>>]
        ELSE IF resp.status # StatusOK THEN [err |-> ErrInvalidStatusCode, sent |-> <<req>>]
        ELSE [err |-> ErrNil, sent |-> <<req>>]

UploadFileBase64(ctx, url, data, resp) == uploadFile(ctx, url, Text(data), resp)

\* UploadFile: fs is the set of paths os.ReadFile can read.
UploadFile(ctx, url, path, fs, resp) ==
    IF path \notin fs THEN [err |-> ErrReadFile, sent |-> <<>>]
    ELSE uploadFile(ctx, url, FileBytes(path), resp)

\* A conditional upload whose condition is false.
NoUpload == [err |-> ErrNil, sent |-> <<>>]

\* SendJobBase64 and SendJob; puts[1..3] are the answers of the storage
\* service to the uploads, in the order the code reaches them.
\* (the extra-document upload placed before the facematch upload)
SendJobBase64ExtraFirst(ctx, c, t, service, file, facematchFile, extraFile, metadata, params, authResp, resp, puts) ==
    LET p == MapsCopy([k \in {"base64"} |-> FLAG_TRUE], params)
        response == GenerateSignedUrl(ctx, c, t, service, RESOURCE_JOB, metadata, p,
                                      authResp, resp)
        urls == response.val.URLs
        document == UploadFileBase64(ctx, Lookup(urls, "document"), file, puts[1])
        second == IF Lookup(p, KEY_EXTRA) = FLAG_TRUE
                  THEN UploadFileBase64(ctx, Lookup(urls, "extra_document"), extraFile, puts[2])
                  ELSE NoUpload
        third == IF Lookup(p, KEY_FACEMATCH) = FLAG_TRUE
                 THEN UploadFileBase64(ctx, Lookup(urls, "selfie"), facematchFile, puts[3])
                 ELSE NoUpload
        out(e, v, sent) == [err |-> e, val |-> v, sent |-> sent,
                            granted |-> response.granted]
    IN  IF response.err # ErrNil THEN out(response.err, ZeroCreated, response.sent)
        ELSE IF document.err # ErrNil
        THEN out(document.err, ZeroCreated, response.sent \o document.sent)
        ELSE IF second.err # ErrNil
        THEN out(second.err, ZeroCreated, response.sent \o document.sent \o second.sent)
        ELSE IF third.err # ErrNil
        THEN out(third.err, ZeroCreated,
                 response.sent \o document.sent \o second.sent \o third.sent)
        ELSE out(ErrNil, CreatedResponse(response.val.Id, response.val.StatusURL),
                 response.sent \o document.sent \o second.sent \o third.sent)

SendJobBase64(ctx, c, t, service, file, facematchFile, extraFile, metadata, params, authResp, resp, puts) ==
    LET p == MapsCopy([k \in {"base64"} |-> FLAG_TRUE], params)
        response == GenerateSignedUrl(ctx, c, t, service, RESOURCE_JOB, metadata, p,
                                      authResp, resp)
        urls == response.val.URLs
        document == UploadFileBase64(ctx, Lookup(urls, "document"), file, puts[1])
        second == IF Lookup(p, KEY_FACEMATCH) = FLAG_TRUE
                  THEN UploadFileBase64(ctx, Lookup(urls, "selfie"), facematchFile, puts[2])
                  ELSE NoUpload
        third == IF Lookup(p, KEY_EXTRA) = FLAG_TRUE
                 THEN UploadFileBase64(ctx, Lookup(urls, "extra_document"), extraFile, puts[3])
                 ELSE NoUpload
        out(e, v, sent) == [err |-> e, val |-> v, sent |-> sent,
                            granted |-> response.granted]
    IN  IF response.err # ErrNil THEN out(response.err, ZeroCreated, response.sent)
        ELSE IF document.err # ErrNil
        THEN out(document.err, ZeroCreated, response.sent \o document.sent)
        ELSE IF second.err # ErrNil
        THEN out(second.err, ZeroCreated, response.sent \o document.sent \o second.sent)
        ELSE IF third.err # ErrNil
        THEN out(third.err, ZeroCreated,
                 response.sent \o document.sent \o second.sent \o third.sent)
        ELSE out(ErrNil, CreatedResponse(response.val.Id, response.val.StatusURL),
                 response.sent \o document.sent \o second.sent \o third.sent)

\* (every upload attempted, the first error handed back at the end)
SendJobUploadsAll(ctx, c, t, service, filePath, facematchFilePath, extraFilePath, metadata, params, fs, authResp, resp, puts) ==
    LET response == GenerateSignedUrl(ctx, c, t, service, RESOURCE_JOB, metadata, params,
                                      authResp, resp)
        urls == response.val.URLs
        document == UploadFile(ctx, Lookup(urls, "document"), filePath, fs, puts[1])
        second == IF Lookup(params, KEY_FACEMATCH) = FLAG_TRUE
                  THEN UploadFile(ctx, Lookup(urls, "selfie"), facematchFilePath, fs, puts[2])
                  ELSE NoUpload
        third == IF Lookup(params, KEY_EXTRA) = FLAG_TRUE
                 THEN UploadFile(ctx, Lookup(urls, "extra_document"), extraFilePath, fs, puts[3])
                 ELSE NoUpload
        all == response.sent \o document.sent \o second.sent \o third.sent
        out(e, v, sent) == [err |-> e, val |-> v, sent |-> sent,
                            granted |-> response.granted]
    IN  IF response.err # ErrNil THEN out(response.err, ZeroCreated, response.sent)
        ELSE IF document.err # ErrNil THEN out(document.err, ZeroCreated, all)
        ELSE IF second.err # ErrNil THEN out(second.err, ZeroCreated, all)
        ELSE IF third.err # ErrNil THEN out(third.err, ZeroCreated, all)
        ELSE out(ErrNil, CreatedResponse(response.val.Id, response.val.StatusURL), all)

\* (the earlier variant of SendJob: the two optional paths exchanged)
SendJobExchanged(ctx, c, t, service, filePath, facematchFilePath, extraFilePath, metadata, params, fs, authResp, resp, puts) ==
    LET p == params
        response == GenerateSignedUrl(ctx, c, t, service, RESOURCE_JOB, metadata, p,
                                      authResp, resp)
        urls == response.val.URLs
        document == UploadFile(ctx, Lookup(urls, "document"), filePath, fs, puts[1])
        second == IF Lookup(p, KEY_FACEMATCH) = FLAG_TRUE
                  THEN UploadFile(ctx, Lookup(urls, "selfie"), extraFilePath, fs, puts[2])
                  ELSE NoUpload
        third == IF Lookup(p, KEY_EXTRA) = FLAG_TRUE
                 THEN UploadFile(ctx, Lookup(urls, "extra_document"), facematchFilePath, fs, puts[3])
                 ELSE NoUpload
        out(e, v, sent) == [err |-> e, val |-> v, sent |-> sent,
                            granted |-> response.granted]
    IN  IF response.err # ErrNil THEN out(response.err, ZeroCreated, response.sent)
        ELSE IF document.err # ErrNil
        THEN out(document.err, ZeroCreated, response.sent \o document.sent)
        ELSE IF second.err # ErrNil
        THEN out(second.err, ZeroCreated, response.sent \o document.sent \o second.sent)
        ELSE IF third.err # ErrNil
        THEN out(third.err, ZeroCreated,
                 response.sent \o document.sent \o second.sent \o third.sent)
        ELSE out(ErrNil, CreatedResponse(response.val.Id, response.val.StatusURL),
                 response.sent \o document.sent \o second.sent \o third.sent)

SendJob(ctx, c, t, service, filePath, facematchFilePath, extraFilePath, metadata, params, fs, authResp, resp, puts) ==
    LET p == params
        response == GenerateSignedUrl(ctx, c, t, service, RESOURCE_JOB, metadata, p,
                                      authResp, resp)
        urls == response.val.URLs
        document == UploadFile(ctx, Lookup(urls, "document"), filePath, fs, puts[1])
        second == IF Lookup(p, KEY_FACEMATCH) = FLAG_TRUE
                  THEN UploadFile(ctx, Lookup(urls, "selfie"), facematchFilePath, fs, puts[2])
                  ELSE NoUpload
        third == IF Lookup(p, KEY_EXTRA) = FLAG_TRUE
                 THEN UploadFile(ctx, Lookup(urls, "extra_document"), extraFilePath, fs, puts[3])
                 ELSE NoUpload
        out(e, v, sent) == [err |-> e, val |-> v, sent |-> sent,
                            granted |-> response.granted]
    IN  IF response.err # ErrNil THEN out(response.err, ZeroCreated, response.sent)
        ELSE IF document.err # ErrNil
        THEN out(document.err, ZeroCreated, response.sent \o document.sent)
        ELSE IF second.err # ErrNil
        THEN out(second.err, ZeroCreated, response.sent \o document.sent \o second.sent)
        ELSE IF third.err # ErrNil
        THEN out(third.err, ZeroCreated,
                 response.sent \o document.sent \o second.sent \o third.sent)
        ELSE out(ErrNil, CreatedResponse(response.val.Id, response.val.StatusURL),
                 response.sent \o document.sent \o second.sent \o third.sent)

\* SendBatchBase64 and SendBatch: one upload, to the "document" slot; puts[1]
\* is the answer of the storage service to it.
SendBatchBase64(ctx, c, t, service, file, metadata, params, authResp, resp, puts) ==
    LET p == MapsCopy([k \in {"base64"} |-> FLAG_TRUE], params)
        response == GenerateSignedUrl(ctx, c, t, service, RESOURCE_BATCH, metadata, p,
                                      authResp, resp)
        urls == response.val.URLs
        document == UploadFileBase64(ctx, Lookup(urls, "document"), file, puts[1])
        out(e, v, sent) == [err |-> e, val |-> v, sent |-> sent,
                            granted |-> response.granted]
    IN  IF response.err # ErrNil THEN out(response.err, ZeroCreated, response.sent)
        ELSE IF document.err # ErrNil
        THEN out(document.err, ZeroCreated, response.sent \o document.sent)
        ELSE out(ErrNil, CreatedResponse(response.val.Id, response.val.StatusURL),
                 response.sent \o document.sent)

\* A SendBatch that does not look at the error of GenerateSignedUrl and goes
\* on to the upload.
SendBatchUploadingAnyway(ctx, c, t, service, filePath, metadata, params, fs, authResp, resp, puts) ==
    LET response == GenerateSignedUrl(ctx, c, t, service, RESOURCE_BATCH, metadata, params,
                                      authResp, resp)
        urls == response.val.URLs
        document == UploadFile(ctx, Lookup(urls, "document"), filePath, fs, puts[1])
        out(e, v, sent) == [err |-> e, val |-> v, sent |-> sent,
                            granted |-> response.granted]
    IN  IF document.err # ErrNil
        THEN out(document.err, ZeroCreated, response.sent \o document.sent)
        ELSE out(ErrNil, CreatedResponse(response.val.Id, response.val.StatusURL),
                 response.sent \o document.sent)

SendBatch(ctx, c, t, service, filePath, metadata, params, fs, authResp, resp, puts) ==
    LET response == GenerateSignedUrl(ctx, c, t, service, RESOURCE_BATCH, metadata, params,
                                      authResp, resp)
        urls == response.val.URLs
        document == UploadFile(ctx, Lookup(urls, "document"), filePath, fs, puts[1])
        out(e, v, sent) == [err |-> e, val |-> v, sent |-> sent,
                            granted |-> response.granted]
    IN  IF response.err # ErrNil THEN out(response.err, ZeroCreated, response.sent)
        ELSE IF document.err # ErrNil
        THEN out(document.err, ZeroCreated, response.sent \o document.sent)
        ELSE out(ErrNil, CreatedResponse(response.val.Id, response.val.StatusURL),
                 response.sent \o document.sent)

---------------------------------------------------------------------------
(* The polling loops *)

\* The terminal test of both loops: status done or error.
TerminalDoneOnly(status) == status = STATUS_DONE

Terminal(status) == status = STATUS_DONE \/ status = STATUS_ERROR

\* The deadline both loops compute on entry: time.Now() + Timeout seconds.
DeadlineWithoutTimeout(c, t) == t

Deadline(c, t) == t + c.Timeout

\* A job wait inside WaitForBatchDone that runs on what is left of the batch
\* wait's deadline.
JobDeadlineShared(c, t, deadline) == deadline

\* The deadline of a job wait started at t inside WaitForBatchDone, whose own
\* loop ran under `deadline`: WaitForJobDone computes its own on entry.
JobDeadline(c, t, deadline) == Deadline(c, t)

\* The deadline test of both loops: time.Now().After(timeout).
ExpiredAtDeadline(t, timeout) == t >= timeout

\* The recursive variant of the loops has no deadline: it polls again after
\* every unfinished record.
ExpiredNever(t, timeout) == FALSE

Expired(t, timeout) == After(t, timeout)

\* An iteration that treats a failed fetch like an unfinished record: it is
\* polled again after the interval, until the deadline.
IterationRetrying(r, t, timeout, zero) ==
    IF r.err = ErrNil /\ Terminal(r.val.Status) THEN [next |-> "return", err |-> ErrNil, val |-> r.val]
    ELSE IF Expired(t, timeout) THEN [next |-> "return", err |-> ErrTimeout, val |-> zero]
    ELSE [next |-> "sleep", err |-> ErrNil, val |-> zero]

\* An iteration that tests the deadline before it looks at the status.
IterationDeadlineFirst(r, t, timeout, zero) ==
    IF r.err # ErrNil THEN [next |-> "return", err |-> r.err, val |-> zero]
    ELSE IF Expired(t, timeout) THEN [next |-> "return", err |-> ErrTimeout, val |-> zero]
    ELSE IF Terminal(r.val.Status) THEN [next |-> "return", err |-> ErrNil, val |-> r.val]
    ELSE [next |-> "sleep", err |-> ErrNil, val |-> zero]

\* What one iteration of a loop decides once its fetch r has returned at time t:
\* hand back the error, hand back the terminal record, time out, or sleep.
Iteration(r, t, timeout, zero) ==
    IF r.err # ErrNil THEN [next |-> "return", err |-> r.err, val |-> zero]
    ELSE IF Terminal(r.val.Status) THEN [next |-> "return", err |-> ErrNil, val |-> r.val]
    ELSE IF Expired(t, timeout) THEN [next |-> "return", err |-> ErrTimeout, val |-> zero]
    ELSE [next |-> "sleep", err |-> ErrNil, val |-> zero]

\* The most recent successful authentication after one that granted `token`
\* ("" when none did).
NoGrant == [token |-> "", by |-> "none"]
Grant(g, token, by) == IF token = "" THEN g ELSE [token |-> token, by |-> by]

NoHist == [fetches |-> 0, sleeps |-> 0, spent |-> 0, last |-> 0]
NoRet == [op |-> "none", err |-> ErrNil, val |-> ZeroJobResult]
Idle == pc = "idle"

\* What a status fetch of the batch or of a job came back with: the error of
\* GetBatchStatus / GetJobResult, the status of the record and, for a batch
\* record with status done or error, the ids of the jobs it lists.
Poll(kind, id, r) ==
    [kind |-> kind, id |-> id, err |-> r.err, status |-> r.val.Status,
     jobs |-> IF kind = "batch" /\ r.err = ErrNil /\ r.val.Status \in {STATUS_DONE, STATUS_ERROR}
              THEN [i \in 1..Len(r.val.Jobs) |-> r.val.Jobs[i].JobID]
              ELSE <<>>]

\* The batch record WaitForBatchDone holds in `result` after its loop.  The
\* earlier variant declares a second `result` inside the loop (`result, err :=`),
\* which leaves the outer one at its zero value.
ResultShadowed(val) == ZeroBatchStatus

\* `result, err = client.GetBatchStatus(ctx, ID)` assigns the outer variable.
Result(val) == val

\* A WaitForBatchDone that waits for the listed jobs whatever waitJobs says.
EntersJobLoopAlways(waitJobs, result) == Len(result.Jobs) > 0

\* `if waitJobs { for _, job := range result.Jobs {`: whether a job is waited for.
EntersJobLoop(waitJobs, result) == waitJobs /\ Len(result.Jobs) > 0

\* The counters after one more fetch, which took d seconds.
Fetched(h, d) == [h EXCEPT !.fetches = @ + 1, !.spent = @ + d, !.last = d]

\* The locals of a wait: the loop's deadline (the local `timeout`), its start,
\* the Timeout and Interval it runs under, and for WaitForBatchDone the batch
\* record `result` and the index idx of the listed job being waited for.
WaitCall(op, batchID, jobID, waitJobs, t) ==
    [op |-> op, batchID |-> batchID, jobID |-> jobID, waitJobs |-> waitJobs,
     timeout |-> Deadline(client, t), start |-> t,
     T |-> client.Timeout, I |-> client.Interval,
     result |-> ZeroBatchStatus, idx |-> 0]

\* WaitForJobDone(batchID, jobID) is called.
CallWaitForJobDone(batchID, jobID) ==
    /\ Idle
    /\ now <= MaxStart
    /\ pc' = "job_fetch"
    /\ call' = WaitCall("WaitForJobDone", batchID, jobID, FALSE, now)
    /\ log' = <<>>
    /\ hist' = NoHist
    /\ fetched' = DoFailure(ZeroJobResult)
    /\ ret' = NoRet
    /\ polls' = <<>>
    /\ UNCHANGED <<client, now, granted>>

\* WaitForBatchDone(ID, waitJobs) is called.
CallWaitForBatchDone(ID, waitJobs) ==
    /\ Idle
    /\ now <= MaxStart
    /\ pc' = "batch_fetch"
    /\ call' = WaitCall("WaitForBatchDone", ID, "", waitJobs, now)
    /\ log' = <<>>
    /\ hist' = NoHist
    /\ fetched' = DoFailure(ZeroBatchStatus)
    /\ ret' = NoRet
    /\ polls' = <<>>
    /\ UNCHANGED <<client, now, granted>>

\* The operations whose polling is that of WaitForJobDone called directly
\* (the others run the loop of WaitForBatchDone).
JobWaitOps == {"WaitForJobDone", "CreateAndWaitJob"}

\* A job loop of WaitForBatchDone that drops the error of WaitForJobDone and
\* goes on to the next listed job.
JobReturnErrorsIgnored(val, err, t) ==
    IF call.op \in JobWaitOps
    THEN /\ pc' = "idle"
         /\ ret' = [op |-> call.op, err |-> err, val |-> val]
         /\ call' = call
    ELSE IF call.idx < Len(call.result.Jobs)
    THEN /\ pc' = "job_fetch"
         /\ ret' = ret
         /\ call' = [call EXCEPT !.idx = call.idx + 1,
                                 !.jobID = call.result.Jobs[call.idx + 1].JobID,
                                 !.timeout = JobDeadline(client, t, call.timeout),
                                 !.start = t]
    ELSE /\ pc' = "idle"
         /\ ret' = [op |-> call.op, err |-> ErrNil, val |-> call.result]
         /\ call' = call

\* A job loop of WaitForBatchDone that writes the status each job was found
\* with into the job summaries of the batch record.
JobReturnUpdatingSummaries(val, err, t) ==
    LET updated == IF call.op \in JobWaitOps \/ err # ErrNil THEN call.result
                   ELSE [call.result EXCEPT !.Jobs[call.idx].Status = val.Status]
    IN  IF call.op \in JobWaitOps
        THEN /\ pc' = "idle"
             /\ ret' = [op |-> call.op, err |-> err, val |-> val]
             /\ call' = call
        ELSE IF err # ErrNil
        THEN /\ pc' = "idle"
             /\ ret' = [op |-> call.op, err |-> err, val |-> ZeroBatchStatus]
             /\ call' = call
        ELSE IF call.idx < Len(call.result.Jobs)
        THEN /\ pc' = "job_fetch"
             /\ ret' = ret
             /\ call' = [call EXCEPT !.result = updated,
                                     !.idx = call.idx + 1,
                                     !.jobID = call.result.Jobs[call.idx + 1].JobID,
                                     !.timeout = JobDeadline(client, t, call.timeout),
                                     !.start = t]
        ELSE /\ pc' = "idle"
             /\ ret' = [op |-> call.op, err |-> ErrNil, val |-> updated]
             /\ call' = [call EXCEPT !.result = updated]

\* A job loop of WaitForBatchDone that hands back the batch record together
\* with the error of a failed job wait.
JobReturnWithBatchRecord(val, err, t) ==
    IF call.op \in JobWaitOps
    THEN /\ pc' = "idle"
         /\ ret' = [op |-> call.op, err |-> err, val |-> val]
         /\ call' = call
    ELSE IF err # ErrNil
    THEN /\ pc' = "idle"
         /\ ret' = [op |-> call.op, err |-> err, val |-> call.result]
         /\ call' = call
    ELSE IF call.idx < Len(call.result.Jobs)
    THEN /\ pc' = "job_fetch"
         /\ ret' = ret
         /\ call' = [call EXCEPT !.idx = call.idx + 1,
                                 !.jobID = call.result.Jobs[call.idx + 1].JobID,
                                 !.timeout = JobDeadline(client, t, call.timeout),
                                 !.start = t]
    ELSE /\ pc' = "idle"
         /\ ret' = [op |-> call.op, err |-> ErrNil, val |-> call.result]
         /\ call' = call

\* WaitForJobDone returns (val, err) at time t: to the caller, or into the
\* job loop of WaitForBatchDone, which starts the wait for the next listed
\* job, fails with the job's error, or returns the batch record.
JobReturn(val, err, t) ==
    IF call.op \in JobWaitOps
    THEN /\ pc' = "idle"
         /\ ret' = [op |-> call.op, err |-> err, val |-> val]
         /\ call' = call
    ELSE IF err # ErrNil
    THEN /\ pc' = "idle"
         /\ ret' = [op |-> call.op, err |-> err, val |-> ZeroBatchStatus]
         /\ call' = call
    ELSE IF call.idx < Len(call.result.Jobs)
    THEN /\ pc' = "job_fetch"
         /\ ret' = ret
         /\ call' = [call EXCEPT !.idx = call.idx + 1,
                                 !.jobID = call.result.Jobs[call.idx + 1].JobID,
                                 !.timeout = JobDeadline(client, t, call.timeout),
                                 !.start = t]
    ELSE /\ pc' = "idle"
         /\ ret' = [op |-> call.op, err |-> ErrNil, val |-> call.result]
         /\ call' = call

\* One iteration of WaitForJobDone up to its sleep: the fetch takes d seconds.
JobFetch(d, authResp, resp) ==
    /\ pc = "job_fetch"
    /\ LET r == GetJobResult(Background, client, now, call.batchID, call.jobID, authResp, resp)
           t == now + d
           it == Iteration(r, t, call.timeout, ZeroJobResult)
       IN  /\ now' = t
           /\ log' = log \o r.sent
           /\ polls' = Append(polls, Poll("job", call.jobID, r))
           /\ granted' = Grant(granted, r.granted, "autoAuthenticate")
           /\ fetched' = resp
           /\ IF it.next = "sleep"
              THEN /\ pc' = "job_sleep"
                   /\ hist' = Fetched(hist, d)
                   /\ UNCHANGED <<call, ret>>
              ELSE /\ JobReturn(it.val, it.err, t)
                   /\ hist' = IF pc' = "job_fetch" THEN NoHist
                              ELSE Fetched(hist, d)
    /\ UNCHANGED client

\* time.Sleep(Interval seconds) of either loop.
Sleep ==
    /\ pc \in {"job_sleep", "batch_sleep"}
    /\ now' = now + client.Interval
    /\ pc' = IF pc = "job_sleep" THEN "job_fetch" ELSE "batch_fetch"
    /\ hist' = [hist EXCEPT !.sleeps = @ + 1]
    /\ UNCHANGED <<client, call, log, fetched, ret, granted, polls>>

\* One iteration of the batch loop of WaitForBatchDone up to its sleep; on a
\* terminal batch record the loop is left and, with waitJobs, the listed jobs
\* are waited for one after the other.
BatchFetch(d, authResp, resp) ==
    /\ pc = "batch_fetch"
    /\ LET r == GetBatchStatus(Background, client, now, call.batchID, authResp, resp)
           t == now + d
           it == Iteration(r, t, call.timeout, ZeroBatchStatus)
       IN  /\ now' = t
           /\ log' = log \o r.sent
           /\ polls' = Append(polls, Poll("batch", call.batchID, r))
           /\ granted' = Grant(granted, r.granted, "autoAuthenticate")
           /\ fetched' = resp
           /\ IF it.next = "sleep"
              THEN /\ pc' = "batch_sleep"
                   /\ hist' = Fetched(hist, d)
                   /\ UNCHANGED <<call, ret>>
              ELSE IF it.err # ErrNil
              THEN /\ pc' = "idle"
                   /\ ret' = [op |-> call.op, err |-> it.err, val |-> ZeroBatchStatus]
                   /\ hist' = Fetched(hist, d)
                   /\ UNCHANGED call
              ELSE IF EntersJobLoop(call.waitJobs, Result(it.val))
              THEN /\ pc' = "job_fetch"
                   /\ call' = [call EXCEPT !.result = Result(it.val),
                                           !.idx = 1,
                                           !.jobID = Result(it.val).Jobs[1].JobID,
                                           !.timeout = JobDeadline(client, t, call.timeout),
                                           !.start = t]
                   /\ hist' = NoHist
                   /\ UNCHANGED ret
              ELSE /\ pc' = "idle"
                   /\ ret' = [op |-> call.op, err |-> ErrNil, val |-> Result(it.val)]
                   /\ call' = [call EXCEPT !.result = Result(it.val)]
                   /\ hist' = Fetched(hist, d)
    /\ UNCHANGED client

\* A configured session: NewClient, then SetTimeout and SetInterval, then
\* Authenticate answered with token "t1" at time 0 (auto-refresh stays off).
Configured(timeout, interval) ==
    [NewClient EXCEPT !.Timeout = timeout, !.Interval = interval,
                      !.Token = "t1", !.ExpiresAt = Minute]

\* The answers the auth endpoint may give to a call on session c: none is
\* drawn when the call sends no authentication request.
AuthAnswers(c, t) ==
    IF c.AutoRefresh /\ After(t, c.ExpiresAt) THEN AuthResponses ELSE {DoFailure("")}

\* The answers to the status fetch of a batch wait that does not wait for the
\* jobs (it never reads the Jobs of a record): records listing no job or one.
BatchRecordResponses ==
    HttpResponses({BatchStatusResponse(b, s, js) :
                      b \in BatchIDs, s \in Statuses,
                      js \in {<<>>, <<BatchStatusJobs("j1", STATUS_DONE)>>}},
                  ZeroBatchStatus)

InitWait ==
    /\ client \in {Configured(t, i) : t \in 0..MaxTimeout, i \in 1..MaxInterval}
    /\ now = 0
    /\ pc = "idle"
    /\ call = WaitCall("none", "", "", FALSE, 0)
    /\ log = <<>>
    /\ fetched = DoFailure(ZeroJobResult)
    /\ hist = NoHist
    /\ ret = NoRet
    /\ granted = [token |-> "t1", by |-> "Authenticate"]
    /\ polls = <<>>

NextWait ==
    \/ \E b \in BatchIDs, j \in JobIDs : CallWaitForJobDone(b, j)
    \/ \E b \in BatchIDs : CallWaitForBatchDone(b, FALSE)
    \/ \E d \in 0..MaxLatency, a \in AuthAnswers(client, now), r \in JobResponses :
          JobFetch(d, a, r)
    \/ \E d \in 0..MaxLatency, a \in AuthAnswers(client, now), r \in BatchRecordResponses :
          BatchFetch(d, a, r)
    \/ Sleep

SpecWait == InitWait /\ [][NextWait]_vars

---------------------------------------------------------------------------
(* The session: authentication, auto-refresh and single authenticated calls *)

\* The instants at which the session clock is read: up to MaxSkew seconds
\* after each of the first MaxMinutes minute boundaries.
Instants == {m * Minute + k : m \in 0..MaxMinutes, k \in 0..MaxSkew}

\* When the answer to a round trip started at t may be handled.
Arrivals(t) == {u \in Instants : u >= t /\ u - t <= MaxSkew}

\* What is remembered of a call on the session: the operation, its context,
\* the time it was issued at, the time u its answer was handled at, the token
\* lifetime asked and, for a call that goes through request, the auto-refresh
\* flag and the expiry it found in the session.
SessionCall(op, ctx, expires, u, auto, expiresAt) ==
    [op |-> op, ctx |-> ctx, at |-> now, handled |-> u, expires |-> expires,
     auto |-> auto, expiresAt |-> expiresAt]
NoSessionCall ==
    [op |-> "none", ctx |-> Background, at |-> 0, handled |-> 0, expires |-> 0,
     auto |-> FALSE, expiresAt |-> 0]

\* The answers drawn for the single calls: a transport failure, a status
\* other than 200, a 200 with each record, a 200 with an undecodable body.
Answers(values, zero) ==
    {DoFailure(zero), [failed |-> FALSE, status |-> 500, body |-> Malformed(zero)]} \cup
    [failed : {FALSE}, status : {StatusOK},
     body : {Body(v) : v \in values} \cup {Malformed(zero)}]

JobAnswers == Answers({JobResultResponse("j1", STATUS_DONE)}, ZeroJobResult)
SignedAnswers == Answers({SignedUrlResponse("j1", "url/j1", SlotURL)}, ZeroSignedUrl)

\* The answers of the auth endpoint to Authenticate called with ctx: those
\* above and a status other than 200 with a decodable body (none is drawn when
\* the request cannot be built).
TokenAnswers(ctx) ==
    IF Mountable(ctx)
    THEN Answers(Tokens, "") \cup {[failed |-> FALSE, status |-> 500, body |-> Body("t1")]}
    ELSE {DoFailure("")}

\* The answers to the authentication request of a call made at t on session c
\* (none is drawn when the call sends no such request).
RefreshAnswers(c, t) ==
    IF c.AutoRefresh /\ After(t, c.ExpiresAt) THEN Answers(Tokens, "") ELSE {DoFailure("")}

AuthenticatedOps == {"GetJobResult", "GenerateSignedUrl"}

\* Time passes between calls; what the last call left behind is put away.
Tick ==
    /\ Idle
    /\ \E u \in Instants : u > now /\ now' = u
    /\ call' = NoSessionCall
    /\ log' = <<>>
    /\ fetched' = DoFailure("")
    /\ ret' = NoRet
    /\ UNCHANGED <<client, pc, hist, granted, polls>>

\* A SetAutoRefresh that authenticates at once and stores the token.
SetAutoRefreshAuthenticating(clientID, clientSecret, expires) ==
    /\ Idle
    /\ client' = [client EXCEPT !.ClientID = clientID,
                                !.ClientSecret = clientSecret,
                                !.Expires = expires,
                                !.AutoRefresh = TRUE,
                                !.Token = "t1",
                                !.ExpiresAt = now + expires * Minute]
    /\ call' = SessionCall("SetAutoRefresh", Background, expires, now, FALSE, 0)
    /\ log' = <<AuthRequest(clientID, clientSecret, expires)>>
    /\ ret' = [op |-> "SetAutoRefresh", err |-> ErrNil, val |-> ""]
    /\ fetched' = DoFailure("")
    /\ granted' = [token |-> "t1", by |-> "SetAutoRefresh"]
    /\ UNCHANGED <<now, pc, hist, polls>>

\* SetAutoRefresh(clientID, clientSecret, expires).
SetAutoRefresh(clientID, clientSecret, expires) ==
    /\ Idle
    /\ client' = [client EXCEPT !.ClientID = clientID,
                                !.ClientSecret = clientSecret,
                                !.Expires = expires,
                                !.AutoRefresh = TRUE,
                                !.ExpiresAt = now]
    /\ call' = SessionCall("SetAutoRefresh", Background, expires, now, FALSE, 0)
    /\ log' = <<>>
    /\ ret' = [op |-> "SetAutoRefresh", err |-> ErrNil, val |-> ""]
    /\ fetched' = DoFailure("")
    /\ UNCHANGED <<now, pc, hist, granted, polls>>

\* Authenticate(ctx, clientID, clientSecret, expires) called on the session
\* (pointer receiver: the session itself is written); its answer is handled at u.
CallAuthenticate(ctx, clientID, clientSecret, expires, resp, u) ==
    /\ Idle
    /\ LET r == Authenticate(ctx, client, u, clientID, clientSecret, expires, resp)
       IN  /\ client' = r.client
           /\ log' = r.sent
           /\ ret' = [op |-> "Authenticate", err |-> r.err, val |-> ""]
           /\ granted' = Grant(granted, r.granted, "Authenticate")
    /\ now' = u
    /\ call' = SessionCall("Authenticate", ctx, expires, u, FALSE, 0)
    /\ fetched' = resp
    /\ UNCHANGED <<pc, hist, polls>>

\* The end of a single authenticated call with result r: get, post and
\* request have value receivers, the session is as before.  The time the call
\* takes is left to the Tick that follows it.
AuthenticatedCall(op, ctx, r, resp) ==
    /\ Idle
    /\ log' = r.sent
    /\ ret' = [op |-> op, err |-> r.err, val |-> r.val]
    /\ granted' = Grant(granted, r.granted, "autoAuthenticate")
    /\ call' = SessionCall(op, ctx, 0, now, client.AutoRefresh, client.ExpiresAt)
    /\ fetched' = resp
    /\ UNCHANGED <<client, now, pc, hist, polls>>

CallGetJobResult(ctx, batchID, jobID, authResp, resp) ==
    AuthenticatedCall("GetJobResult", ctx,
                      GetJobResult(ctx, client, now, batchID, jobID, authResp, resp),
                      resp)

CallGenerateSignedUrl(ctx, service, resource, metadata, params, authResp, resp) ==
    AuthenticatedCall("GenerateSignedUrl", ctx,
                      GenerateSignedUrl(ctx, client, now, service, resource, metadata,
                                        params, authResp, resp),
                      resp)

Init ==
    /\ client = NewClient
    /\ now = 0
    /\ pc = "idle"
    /\ call = NoSessionCall
    /\ log = <<>>
    /\ fetched = DoFailure("")
    /\ hist = NoHist
    /\ ret = NoRet
    /\ granted = NoGrant
    /\ polls = <<>>

Next ==
    \/ Tick
    \/ \E e \in 1..MaxExpires : SetAutoRefresh("id1", "s1", e)
    \/ \E ctx \in Ctxs :
          \E e \in 1..MaxExpires, r \in TokenAnswers(ctx), u \in Arrivals(now) :
              CallAuthenticate(ctx, "id1", "s1", e, r, u)
    \/ \E a \in RefreshAnswers(client, now), r \in JobAnswers :
          CallGetJobResult(Background, "b1", "j1", a, r)
    \/ \E m \in JobMetadatas, a \in RefreshAnswers(client, now), r \in SignedAnswers :
          CallGenerateSignedUrl(Background, "cnh", RESOURCE_JOB, m, EmptyMap, a, r)

Spec == Init /\ [][Next]_vars

---------------------------------------------------------------------------
(* Job submission: one SendJob or SendJobBase64 on a configured session *)

SendOps == {"SendJob", "SendJobBase64"}

\* The params argument: each of the two flags absent, "true" or "false".
ParamMaps == UNION {[S -> {FLAG_TRUE, "false"}] : S \in SUBSET {KEY_FACEMATCH, KEY_EXTRA}}

\* The file arguments (paths for SendJob, base64 texts for SendJobBase64) and
\* the sets of paths that can be read.
DocumentFile == "doc"
FacematchFile == "face"
ExtraFile == "extra"
FileSystems == SUBSET {DocumentFile, FacematchFile, ExtraFile}

\* The answers of the storage service to an upload (their bodies are not read).
PutAnswers == {r \in PutResponses : r.failed \/ r.body.valid}

\* The metadata of a batch: a list of maps.
BatchMetadatas == {Metadata("list", n) : n \in 0..1}

PutSequences == [1..3 -> PutAnswers]
NoPuts == [i \in 1..3 |-> DoFailure("")]

\* What is remembered of a submission: the operation, its arguments, and the
\* answers the storage service had for its uploads.
SendCall(op, service, file, facematchFile, extraFile, params, fs, puts) ==
    [op |-> op, service |-> service, file |-> file, facematchFile |-> facematchFile,
     extraFile |-> extraFile, params |-> params, fs |-> fs, puts |-> puts]

\* The end of a submission with result r (the session is as before: the
\* requests go through post and uploadFile, which have value receivers).
Submitted(op, r, resp) ==
    /\ Idle
    /\ ret.op = "none"
    /\ log' = r.sent
    /\ ret' = [op |-> op, err |-> r.err, val |-> r.val]
    /\ granted' = Grant(granted, r.granted, "autoAuthenticate")
    /\ fetched' = resp
    /\ UNCHANGED <<client, now, pc, hist, polls>>

CallSendJob(ctx, service, filePath, facematchFilePath, extraFilePath, metadata, params, fs, authResp, resp, puts) ==
    /\ Submitted("SendJob",
                 SendJob(ctx, client, now, service, filePath, facematchFilePath,
                         extraFilePath, metadata, params, fs, authResp, resp, puts),
                 resp)
    /\ call' = SendCall("SendJob", service, filePath, facematchFilePath, extraFilePath,
                        params, fs, puts)

CallSendBatch(ctx, service, filePath, metadata, params, fs, authResp, resp, puts) ==
    /\ Submitted("SendBatch",
                 SendBatch(ctx, client, now, service, filePath, metadata, params, fs,
                           authResp, resp, puts),
                 resp)
    /\ call' = SendCall("SendBatch", service, filePath, "", "", params, fs, puts)

CallSendBatchBase64(ctx, service, file, metadata, params, authResp, resp, puts) ==
    /\ Submitted("SendBatchBase64",
                 SendBatchBase64(ctx, client, now, service, file, metadata, params,
                                 authResp, resp, puts),
                 resp)
    /\ call' = SendCall("SendBatchBase64", service, file, "", "", params, {}, puts)

CallSendJobBase64(ctx, service, file, facematchFile, extraFile, metadata, params, authResp, resp, puts) ==
    /\ Submitted("SendJobBase64",
                 SendJobBase64(ctx, client, now, service, file, facematchFile, extraFile,
                               metadata, params, authResp, resp, puts),
                 resp)
    /\ call' = SendCall("SendJobBase64", service, file, facematchFile, extraFile,
                        params, {}, puts)

InitSend ==
    /\ client = Configured(API_TIMEOUT, POOLING_INTERVAL)
    /\ now = 0
    /\ pc = "idle"
    /\ call = SendCall("none", "", "", "", "", EmptyMap, {}, NoPuts)
    /\ log = <<>>
    /\ fetched = DoFailure(ZeroSignedUrl)
    /\ hist = NoHist
    /\ ret = NoRet
    /\ granted = [token |-> "t1", by |-> "Authenticate"]
    /\ polls = <<>>

\* No submission has been made yet.
Fresh == Idle /\ ret.op = "none"

NextSend ==
    \/ /\ Fresh
       /\ \E m \in JobMetadatas, p \in ParamMaps, fs \in FileSystems,
             a \in RefreshAnswers(client, now), r \in SignedAnswers, puts \in PutSequences :
             CallSendJob(Background, "cnh", DocumentFile, FacematchFile, ExtraFile, m, p,
                         fs, a, r, puts)
    \/ /\ Fresh
       /\ \E m \in JobMetadatas, p \in ParamMaps,
             a \in RefreshAnswers(client, now), r \in SignedAnswers, puts \in PutSequences :
             CallSendJobBase64(Background, "cnh", DocumentFile, FacematchFile, ExtraFile,
                               m, p, a, r, puts)
    \/ /\ Fresh
       /\ \E m \in BatchMetadatas, p \in ParamMaps, fs \in FileSystems,
             a \in RefreshAnswers(client, now), r \in SignedAnswers, puts \in PutSequences :
             CallSendBatch(Background, "cnh", DocumentFile, m, p, fs, a, r, puts)
    \/ /\ Fresh
       /\ \E m \in BatchMetadatas, p \in ParamMaps,
             a \in RefreshAnswers(client, now), r \in SignedAnswers, puts \in PutSequences :
             CallSendBatchBase64(Background, "cnh", DocumentFile, m, p, a, r, puts)

SpecSend == InitSend /\ [][NextSend]_vars

---------------------------------------------------------------------------
(* Job submission when the signed-URL response leaves slots out *)

\* Signed-URL responses with status 200 and a record holding any subset of the
\* three slots.  HttpClient is an interface (SetHttpClient): what it answers
\* to a PUT whose URL is the empty string is not decided by this code.
SlotAnswers == {[failed |-> FALSE, status |-> StatusOK, body |-> Body(v)] : v \in SignedBodies}
AllFiles == {DocumentFile, FacematchFile, ExtraFile}

NextSlots ==
    \/ /\ Fresh
       /\ \E m \in JobMetadatas, p \in ParamMaps, a \in RefreshAnswers(client, now),
             r \in SlotAnswers, puts \in PutSequences :
             CallSendJob(Background, "cnh", DocumentFile, FacematchFile, ExtraFile, m, p,
                         AllFiles, a, r, puts)
    \/ /\ Fresh
       /\ \E m \in JobMetadatas, p \in ParamMaps, a \in RefreshAnswers(client, now),
             r \in SlotAnswers, puts \in PutSequences :
             CallSendJobBase64(Background, "cnh", DocumentFile, FacematchFile, ExtraFile,
                               m, p, a, r, puts)

SpecSlots == InitSend /\ [][NextSlots]_vars

---------------------------------------------------------------------------
(* Uploads called directly: one UploadFile or UploadFileBase64 *)

UploadCallOps == {"UploadFile", "UploadFileBase64"}
UploadURLs == {SlotURL[k] : k \in Slots}

\* What is remembered of an upload: the operation and its arguments.
UploadCall(op, ctx, url, file, fs) ==
    [op |-> op, ctx |-> ctx, url |-> url, file |-> file, fs |-> fs]

\* The end of an upload with result r (uploadFile has a value receiver and
\* reads nothing of the session but HttpClient).
Uploaded(op, r, resp) ==
    /\ log' = r.sent
    /\ ret' = [op |-> op, err |-> r.err, val |-> ""]
    /\ fetched' = resp
    /\ UNCHANGED <<client, now, pc, hist, granted, polls>>

CallUploadFile(ctx, url, path, fs, resp) ==
    /\ Uploaded("UploadFile", UploadFile(ctx, url, path, fs, resp), resp)
    /\ call' = UploadCall("UploadFile", ctx, url, path, fs)

CallUploadFileBase64(ctx, url, data, resp) ==
    /\ Uploaded("UploadFileBase64", UploadFileBase64(ctx, url, data, resp), resp)
    /\ call' = UploadCall("UploadFileBase64", ctx, url, data, {})

InitUpload ==
    /\ client = Configured(API_TIMEOUT, POOLING_INTERVAL)
    /\ now = 0
    /\ pc = "idle"
    /\ call = UploadCall("none", Background, "", "", {})
    /\ log = <<>>
    /\ fetched = DoFailure("")
    /\ hist = NoHist
    /\ ret = NoRet
    /\ granted = [token |-> "t1", by |-> "Authenticate"]
    /\ polls = <<>>

NextUpload ==
    \/ /\ Fresh
       /\ \E ctx \in Ctxs, url \in UploadURLs, path \in AllFiles, fs \in FileSystems,
             resp \in PutResponses :
             CallUploadFile(ctx, url, path, fs, resp)
    \/ /\ Fresh
       /\ \E ctx \in Ctxs, url \in UploadURLs, data \in AllFiles, resp \in PutResponses :
             CallUploadFileBase64(ctx, url, data, resp)

SpecUpload == InitUpload /\ [][NextUpload]_vars

---------------------------------------------------------------------------
(* Properties of the polling loops (under SpecWait) *)

WaitOps == {"WaitForJobDone", "WaitForBatchDone"}
Returned(ops) == pc = "idle" /\ ret.op \in ops
Elapsed == now - call.start
CeilDiv(a, b) == (a + b - 1) \div b

\* The last status fetch was answered with status 200 and a decodable record.
FetchedRecord == ~fetched.failed /\ fetched.status = StatusOK /\ fetched.body.valid
FetchedTerminal == FetchedRecord /\ fetched.body.val.Status \in {STATUS_DONE, STATUS_ERROR}
FetchedNonTerminal == FetchedRecord /\ fetched.body.val.Status \notin {STATUS_DONE, STATUS_ERROR}

\* C1: in WaitForJobDone and WaitForBatchDone (waitJobs = false), once a status
\* fetch has been answered with a record whose status is done or error, the
\* wait has returned exactly that record with a nil error: it is in no sleep
\* and at no further fetch, every sleep it made lies between two fetches, and
\* the fetch was the last request it issued.
C1_TerminalRecordReturnedAtOnce ==
    (call.op \in WaitOps /\ ~call.waitJobs /\ FetchedTerminal) =>
        /\ pc = "idle"
        /\ ret.op = call.op
        /\ ret.err = ErrNil
        /\ ret.val = fetched.body.val
        /\ hist.sleeps = hist.fetches - 1
        /\ Len(log) = hist.fetches

\* C1 witness: a wait that slept, polled again and was answered with status
\* "error" has returned that record.
C1_Witness ==
    /\ Returned(WaitOps)
    /\ FetchedTerminal
    /\ fetched.body.val.Status = STATUS_ERROR
    /\ ret.val = fetched.body.val
    /\ hist.sleeps >= 1

\* C2 as claimed: a non-terminal fetch that ends at a time >= the deadline
\* (the deadline itself included) makes the wait fail with the timeout error,
\* so a wait that goes to sleep does so strictly before its deadline.
C2_AsClaimed ==
    pc \in {"job_sleep", "batch_sleep"} => now < call.timeout

\* C2 as amended: a non-terminal fetch that ends strictly after the deadline
\* makes the wait fail with the timeout error instead of sleeping; one that
\* ends at the deadline or before it is followed by a sleep and another fetch,
\* so the timeout error is only ever returned strictly after the deadline.
C2_TimeoutStrictlyAfterDeadline ==
    /\ pc \in {"job_sleep", "batch_sleep"} => (FetchedNonTerminal /\ now <= call.timeout)
    /\ (Returned(WaitOps) /\ FetchedNonTerminal)
           => (ret.err = ErrTimeout /\ now > call.timeout)
    /\ (Returned(WaitOps) /\ ret.err = ErrTimeout)
           => (FetchedNonTerminal /\ now > call.timeout)

\* C2 witness: a wait went to sleep exactly at its deadline.
C2_Witness ==
    /\ pc \in {"job_sleep", "batch_sleep"}
    /\ now = call.timeout
    /\ hist.fetches >= 1

\* C3 as claimed: with 1 <= I <= T, a status sequence whose first terminal
\* status is among the first ceil(T/I) fetches is never cut short by the
\* timeout error, that is, WaitForJobDone returns the timeout error only after
\* at least ceil(T/I) non-terminal fetches.
C3_AsClaimed ==
    (Returned({"WaitForJobDone"}) /\ call.I <= call.T /\ ret.err = ErrTimeout)
        => hist.fetches >= CeilDiv(call.T, call.I)

\* C3 as amended: the same, provided the fetches made so far took at most I
\* seconds in total (as they do when fetches are instantaneous); and a terminal
\* record, whenever fetched, is what the wait returns.
C3_TerminalWithinCeilReturned ==
    /\ (Returned({"WaitForJobDone"}) /\ call.I <= call.T /\ ret.err = ErrTimeout
            /\ hist.spent <= call.I)
        => hist.fetches >= CeilDiv(call.T, call.I)
    /\ (call.op = "WaitForJobDone" /\ FetchedTerminal)
        => (Returned({"WaitForJobDone"}) /\ ret.err = ErrNil /\ ret.val = fetched.body.val)

\* C3 witness: with I < T, the terminal record arrived at fetch number
\* ceil(T/I) exactly and was returned.
C3_Witness ==
    /\ Returned({"WaitForJobDone"})
    /\ call.I < call.T
    /\ FetchedTerminal
    /\ ret.err = ErrNil
    /\ hist.fetches = CeilDiv(call.T, call.I)
    /\ hist.spent <= call.I

\* C4 as claimed: with 1 <= I <= T and only non-terminal answers, the wait
\* returns the timeout error when between T - I and T + I seconds have passed
\* since it started.
C4_AsClaimed ==
    (Returned(WaitOps) /\ call.I <= call.T /\ ret.err = ErrTimeout)
        => (call.T - call.I <= Elapsed /\ Elapsed <= call.T + call.I)

\* C4 as amended: with 1 <= I <= T and only non-terminal answers, the wait
\* sleeps at most T/I + 1 times and then returns the timeout error, more than
\* T seconds and at most T + I seconds plus the duration of its last fetch
\* after it started (so within (T, T + I] when fetches are instantaneous).
C4_TimeoutAfterAboutT ==
    /\ (call.op \in WaitOps /\ call.I <= call.T)
        => hist.sleeps <= (call.T \div call.I) + 1
    /\ (Returned(WaitOps) /\ call.I <= call.T /\ FetchedNonTerminal)
        => /\ ret.err = ErrTimeout
           /\ Elapsed > call.T
           /\ Elapsed <= call.T + call.I + hist.last

\* C4 witness: only non-terminal answers, instantaneous fetches, and the
\* timeout error returned T + I seconds after the start.
C4_Witness ==
    /\ Returned(WaitOps)
    /\ ret.err = ErrTimeout
    /\ call.I <= call.T
    /\ hist.spent = 0
    /\ Elapsed = call.T + call.I


---------------------------------------------------------------------------
(* Properties of the session (under Spec) *)

IsAuthRequest(r) == r.method = "POST" /\ r.url = <<"token">>
AuthRequestsIn(l) == Cardinality({i \in 1..Len(l) : IsAuthRequest(l[i])})

\* The last call was a single authenticated call on a session with
\* auto-refresh enabled, made with a usable context.
AutoRefreshCall ==
    Idle /\ ret.op \in AuthenticatedOps /\ call.auto /\ Mountable(call.ctx)

\* C5: with auto-refresh enabled, an authenticated call issued when now is
\* after the stored expiry sends exactly one authentication request, and sends
\* it first, before the original request; an authenticated call issued when
\* now is at or before the stored expiry sends no authentication request.
C5_OneAuthenticationWhenExpired ==
    AutoRefreshCall =>
        IF call.at > call.expiresAt
        THEN /\ AuthRequestsIn(log) = 1
             /\ IsAuthRequest(log[1])
        ELSE AuthRequestsIn(log) = 0

C5_Witness ==
    /\ AutoRefreshCall
    /\ call.at > call.expiresAt
    /\ ret.err = ErrNil
    /\ Len(log) = 2
    /\ IsAuthRequest(log[1])
    /\ ~IsAuthRequest(log[2])

\* C6: after an authenticated operation on a session with auto-refresh enabled
\* has re-authenticated and sent its request, the caller's session holds the
\* token that request carried and the expiry of that authentication (its time
\* plus Expires minutes).
C6_SessionHoldsRefreshedToken ==
    (AutoRefreshCall /\ Len(log) = 2 /\ IsAuthRequest(log[1])) =>
        /\ client.Token = log[2].auth
        /\ client.ExpiresAt = call.at + client.Expires * Minute

\* C7: right after a successful Authenticate(id, secret, expires) the session
\* holds the token of the answer and its expiry is the time Authenticate read
\* the clock (while the call was running) plus expires minutes; and as long as
\* that Authenticate is the latest successful authentication, every request
\* other than an authentication request carries its token as bearer token.
C7_AuthenticateStoresTokenAndExpiry ==
    /\ (Idle /\ ret.op = "Authenticate" /\ ret.err = ErrNil) =>
          /\ client.Token = fetched.body.val
          /\ call.at <= call.handled
          /\ client.ExpiresAt = call.handled + call.expires * Minute
    /\ (Idle /\ granted.by = "Authenticate") =>
          \A i \in 1..Len(log) :
              ~IsAuthRequest(log[i]) => log[i].auth = granted.token

C7_Witness ==
    /\ Idle
    /\ granted.by = "Authenticate"
    /\ ret.op \in AuthenticatedOps
    /\ Len(log) = 1
    /\ log[1].auth = granted.token
    /\ client.Token = granted.token
    /\ client.ExpiresAt > Minute

\* C8: Authenticate returns an error whenever the transport fails, the auth
\* endpoint answers with a status outside 200..299, or the body of the answer
\* cannot be decoded.
C8_AuthenticateFailsOnBadAnswer ==
    (Idle /\ ret.op = "Authenticate" /\ Mountable(call.ctx)
          /\ (fetched.failed \/ fetched.status \notin 200..299 \/ ~fetched.body.valid)) =>
        ret.err # ErrNil

C8_Witness ==
    /\ Idle
    /\ ret.op = "Authenticate"
    /\ ~fetched.failed
    /\ fetched.status = 500
    /\ fetched.body.valid
    /\ ret.err = ErrInvalidStatusCode


---------------------------------------------------------------------------
(* Properties of job submission (under SpecSend) *)

SendReturned == Idle /\ ret.op \in SendOps
Flag(k) == Lookup(call.params, k) = FLAG_TRUE
IsSignedUrlPost(r) == r.method = "POST" /\ r.url = <<"ocr", RESOURCE_JOB, call.service>>
IsPutTo(r, slot) == r.method = "PUT" /\ r.url = <<SlotURL[slot]>>

\* The slots a submission with the call's params uploads to, in order.
ExpectedSlots ==
    <<"document">>
        \o (IF Flag(KEY_FACEMATCH) THEN <<"selfie">> ELSE <<>>)
        \o (IF Flag(KEY_EXTRA) THEN <<"extra_document">> ELSE <<>>)

\* The body of an upload of one of the call's file arguments.
Payload(file) == IF ret.op = "SendJob" THEN FileBytes(file) ELSE Text(file)

\* C9: the requests of SendJob and SendJobBase64 are, in order, the
\* signed-URL POST, then a PUT to the "document" slot, then a PUT to the
\* "selfie" slot iff params facematch = "true", then a PUT to the
\* "extra_document" slot iff params extra-document = "true": what was sent is
\* a prefix of that list (the whole list when the submission succeeded), and
\* uploads are sent only once the signed-URL POST was answered with a record.
C9_RequestsInFixedOrder ==
    SendReturned =>
        /\ Len(log) <= 1 + Len(ExpectedSlots)
        /\ Len(log) >= 1 => IsSignedUrlPost(log[1])
        /\ \A i \in 2..Len(log) : IsPutTo(log[i], ExpectedSlots[i - 1])
        /\ Len(log) >= 2 => FetchedRecord
        /\ ret.err = ErrNil => Len(log) = 1 + Len(ExpectedSlots)

C9_Witness ==
    /\ SendReturned
    /\ ret.err = ErrNil
    /\ Len(log) = 4
    /\ IsPutTo(log[3], "selfie")
    /\ IsPutTo(log[4], "extra_document")

\* C10: in SendJob and SendJobBase64 every upload to the "selfie" slot is made
\* under facematch = "true" and carries the facematch file argument, every
\* upload to the "extra_document" slot is made under extra-document = "true"
\* and carries the extra file argument, and a submission that succeeded made
\* the upload of each flag that was set.
C10_FlagMatchesSlotAndFile ==
    SendReturned =>
        /\ \A i \in 1..Len(log) :
              /\ IsPutTo(log[i], "selfie") =>
                    Flag(KEY_FACEMATCH) /\ log[i].body = Payload(call.facematchFile)
              /\ IsPutTo(log[i], "extra_document") =>
                    Flag(KEY_EXTRA) /\ log[i].body = Payload(call.extraFile)
        /\ (ret.err = ErrNil /\ Flag(KEY_FACEMATCH)) =>
              \E i \in 1..Len(log) : IsPutTo(log[i], "selfie")
        /\ (ret.err = ErrNil /\ Flag(KEY_EXTRA)) =>
              \E i \in 1..Len(log) : IsPutTo(log[i], "extra_document")

C10_Witness ==
    /\ SendReturned
    /\ Flag(KEY_FACEMATCH)
    /\ Flag(KEY_EXTRA)
    /\ \E i, j \in 1..Len(log) :
          /\ IsPutTo(log[i], "selfie")
          /\ log[i].body = Payload(call.facematchFile)
          /\ IsPutTo(log[j], "extra_document")
          /\ log[j].body = Payload(call.extraFile)

---------------------------------------------------------------------------
(* Properties of the uploads of a submission (under SpecSend) *)

UploadOps == {"SendJob", "SendJobBase64", "SendBatch", "SendBatchBase64"}
PathOps == {"SendJob", "SendBatch"}

\* The slots the last submission uploads to, in order, and for each slot the
\* file argument it takes and the answer the storage service had for it.
UploadSlots == IF ret.op \in SendOps THEN ExpectedSlots ELSE <<"document">>
SlotFile(slot) ==
    CASE slot = "document" -> call.file
      [] slot = "selfie" -> call.facematchFile
      [] slot = "extra_document" -> call.extraFile
SlotAnswer(slot) ==
    CASE slot = "document" -> call.puts[1]
      [] slot = "selfie" -> call.puts[2]
      [] slot = "extra_document" -> call.puts[3]

\* The upload to a slot fails: its file cannot be read (path variants), the
\* transport fails, or the storage service answers with a status other than 200.
UploadFails(slot) ==
    \/ ret.op \in PathOps /\ SlotFile(slot) \notin call.fs
    \/ SlotAnswer(slot).failed
    \/ SlotAnswer(slot).status # StatusOK

\* The k-th upload of the last submission is the first one to fail.
FirstFailure(k) ==
    /\ k \in 1..Len(UploadSlots)
    /\ UploadFails(UploadSlots[k])
    /\ \A j \in 1..(k - 1) : ~UploadFails(UploadSlots[j])

\* C11: in SendJob, SendJobBase64, SendBatch and SendBatchBase64, when the
\* signed URLs were obtained and the k-th upload is the first to fail, the
\* operation returns an error and no created record, the k - 1 uploads before
\* it were made and stay, no upload after the k-th is attempted, and nothing
\* but the signed-URL POST and PUTs to the slots in order was requested.
C11_FailedUploadShortCircuits ==
    (Idle /\ ret.op \in UploadOps /\ FetchedRecord) =>
        \A k \in 1..Len(UploadSlots) :
            FirstFailure(k) =>
                /\ ret.err # ErrNil
                /\ ret.val = ZeroCreated
                /\ Len(log) \in {k, k + 1}
                /\ \A j \in 1..(k - 1) : IsPutTo(log[1 + j], UploadSlots[j])
                /\ \A i \in 2..Len(log) : IsPutTo(log[i], UploadSlots[i - 1])

C11_Witness ==
    /\ Idle
    /\ ret.op \in SendOps
    /\ FetchedRecord
    /\ Len(UploadSlots) = 3
    /\ FirstFailure(2)
    /\ Len(log) = 3
    /\ IsPutTo(log[2], "document")
    /\ IsPutTo(log[3], "selfie")
    /\ ret.err = ErrInvalidStatusCode

---------------------------------------------------------------------------
(* Properties of a submission with slots left out (under SpecSlots) *)

\* The last submission had the facematch flag set and got a signed-URL record
\* without a "selfie" slot.
SelfieSlotMissing ==
    /\ SendReturned
    /\ Flag(KEY_FACEMATCH)
    /\ FetchedRecord
    /\ "selfie" \notin DOMAIN fetched.body.val.URLs

\* C12: when SendJob or SendJobBase64 is called with the facematch flag set
\* and the signed-URL record has no "selfie" slot, the operation returns an
\* error and makes no upload after the one for the selfie (at most the
\* signed-URL POST, the document upload and the selfie attempt are requested).
C12_MissingSelfieSlotFails ==
    SelfieSlotMissing => (ret.err # ErrNil /\ Len(log) <= 3)

\* The submission succeeded all the same, after an upload to the empty URL
\* and the extra-document upload.
C12_SucceedsWithoutSelfieSlot ==
    /\ SelfieSlotMissing
    /\ Flag(KEY_EXTRA)
    /\ ret.err = ErrNil
    /\ Len(log) = 4
    /\ log[3].url = <<"">>

---------------------------------------------------------------------------
(* Properties of the uploads called directly (under SpecUpload) *)

UploadReturned == Idle /\ ret.op \in UploadCallOps

\* C13: UploadFile and UploadFileBase64 (both through uploadFile) return an
\* error whenever the request cannot be built, the transport fails, the PUT is
\* answered with a status other than 200 or (UploadFile) the file cannot be
\* read; they return nil only when one PUT was sent and answered with 200.
C13_UploadFailsUnlessPutAnswered200 ==
    UploadReturned =>
        /\ ~Mountable(call.ctx) => ret.err # ErrNil
        /\ fetched.failed => ret.err # ErrNil
        /\ fetched.status # StatusOK => ret.err # ErrNil
        /\ (ret.op = "UploadFile" /\ call.file \notin call.fs) => ret.err = ErrReadFile
        /\ ret.err = ErrNil =>
              /\ Len(log) = 1
              /\ log[1].method = "PUT"
              /\ log[1].url = <<call.url>>
              /\ ~fetched.failed
              /\ fetched.status = StatusOK

C13_Witness ==
    /\ UploadReturned
    /\ Mountable(call.ctx)
    /\ call.file \in call.fs
    /\ ~fetched.failed
    /\ fetched.status = 201
    /\ Len(log) = 1
    /\ ret.err = ErrInvalidStatusCode

---------------------------------------------------------------------------
(* Batch waits that also wait for the listed jobs *)

\* The job summaries a batch record may carry: every job once (job ids are
\* unique within a batch), each listed as still processing.
DistinctJobLists ==
    {js \in JobLists : /\ \A i \in 1..Len(js) : js[i].Status = "processing"
                       /\ \A i, k \in 1..Len(js) : js[i].JobID = js[k].JobID => i = k}

\* The answers to the status fetch of a batch wait.
BatchListResponses ==
    HttpResponses({BatchStatusResponse(b, s, js) :
                      b \in BatchIDs, s \in Statuses, js \in DistinctJobLists},
                  ZeroBatchStatus)

\* The answers to the result fetch of job j: a failure, or the record of j.
JobResponsesOf(j) == HttpResponses({JobResultResponse(j, s) : s \in Statuses}, ZeroJobResult)

\* NewClient, then SetTimeout, then Authenticate answered with token "t1" at
\* time 0: the interval stays at POOLING_INTERVAL.
InitBatch ==
    /\ client \in {Configured(t, POOLING_INTERVAL) : t \in 0..MaxBatchTimeout}
    /\ now = 0
    /\ pc = "idle"
    /\ call = WaitCall("none", "", "", FALSE, 0)
    /\ log = <<>>
    /\ fetched = DoFailure(ZeroJobResult)
    /\ hist = NoHist
    /\ ret = NoRet
    /\ granted = [token |-> "t1", by |-> "Authenticate"]
    /\ polls = <<>>

NextBatch ==
    \/ \E b \in BatchIDs, j \in JobIDs : CallWaitForJobDone(b, j)
    \/ \E b \in BatchIDs, waitJobs \in BOOLEAN : CallWaitForBatchDone(b, waitJobs)
    \/ \E d \in 0..MaxLatency, a \in AuthAnswers(client, now), r \in JobResponsesOf(call.jobID) :
          JobFetch(d, a, r)
    \/ \E d \in 0..MaxLatency, a \in AuthAnswers(client, now), r \in BatchListResponses :
          BatchFetch(d, a, r)
    \/ Sleep

SpecBatch == InitBatch /\ [][NextBatch]_vars

---------------------------------------------------------------------------
(* Properties of batch waits (under SpecBatch) *)

DoneOrError == {STATUS_DONE, STATUS_ERROR}

\* The status fetch numbered i came back with a record whose status is done
\* or error.
PollTerminal(i) == polls[i].err = ErrNil /\ polls[i].status \in DoneOrError

\* The status request of a poll: of the batch, or of one job of the batch.
StatusRequest(kind, batchID, jobID) ==
    Request("GET",
            IF kind = "batch" THEN <<"ocr", "batch", "status", batchID>>
            ELSE <<"ocr", "job", "result", batchID, jobID>>,
            client.Token, NoBody, EmptyMap)

\* The wait for batch and jobs under way, or the last one made.
BatchAndJobs == call.op = "WaitForBatchDone" /\ call.waitJobs

\* C14: in WaitForBatchDone with waitJobs = true, as long as every status
\* fetch came back with a terminal record (the first batch fetch, listing N
\* jobs, and the first fetch of every job polled so far), the requests made
\* are the batch-status request followed by the job-result requests of the
\* listed jobs in listed order, without a sleep in between; the wait returns
\* the batch record after exactly 1 + N of them and not before.
C14_OneRequestPerTerminalEntity ==
    (BatchAndJobs /\ Len(polls) > 0 /\ \A i \in 1..Len(polls) : PollTerminal(i)) =>
        LET listed == polls[1].jobs
            N == Len(listed)
        IN  /\ Len(log) = Len(polls)
            /\ Len(log) <= 1 + N
            /\ log[1] = StatusRequest("batch", call.batchID, "")
            /\ \A k \in 1..(Len(log) - 1) :
                  log[1 + k] = StatusRequest("job", call.batchID, listed[k])
            /\ hist.sleeps = 0
            /\ (pc = "idle") = (Len(log) = 1 + N)
            /\ pc = "idle" => /\ ret.op = "WaitForBatchDone"
                              /\ ret.err = ErrNil
                              /\ Len(ret.val.Jobs) = N
            /\ pc # "idle" => pc = "job_fetch" /\ call.jobID = listed[Len(log)]

\* C14 witness: a batch record listing two jobs, both answered with a
\* terminal record at their first fetch: the wait returned after 3 requests.
C14_Witness ==
    /\ BatchAndJobs
    /\ Returned({"WaitForBatchDone"})
    /\ ret.err = ErrNil
    /\ Len(polls) = 3
    /\ \A i \in 1..3 : PollTerminal(i)
    /\ Len(polls[1].jobs) = 2
    /\ Len(log) = 3

\* The last status fetch of the batch itself.
LastBatchPoll == CHOOSE b \in 1..Len(polls) : polls[b].kind = "batch" /\ \A i \in (b + 1)..Len(polls) : polls[i].kind = "job"

\* A fetch after the batch loop asked for job j with the job-result request
\* and came back with a record whose status is done or error.
JobSeenTerminal(j) ==
    \E i \in (LastBatchPoll + 1)..Len(polls) :
        /\ polls[i].kind = "job"
        /\ polls[i].id = j
        /\ PollTerminal(i)
        /\ log[i] = StatusRequest("job", call.batchID, j)

\* C15: whenever WaitForBatchDone(batchID, true) returns a nil error, the
\* last batch-status fetch came back with status done or error, that record is
\* the one returned, and for every job it lists a job-result fetch that came
\* back with status done or error was made during the call.
C15_SuccessMeansBatchAndJobsTerminal ==
    (BatchAndJobs /\ Returned({"WaitForBatchDone"}) /\ ret.err = ErrNil) =>
        /\ Len(polls) > 0
        /\ polls[LastBatchPoll].kind = "batch"
        /\ PollTerminal(LastBatchPoll)
        /\ ret.val.Status = polls[LastBatchPoll].status
        /\ ret.val.BatchID \in BatchIDs
        /\ Len(ret.val.Jobs) = Len(polls[LastBatchPoll].jobs)
        /\ \A k \in 1..Len(ret.val.Jobs) :
              /\ ret.val.Jobs[k].JobID = polls[LastBatchPoll].jobs[k]
              /\ JobSeenTerminal(ret.val.Jobs[k].JobID)

\* C15 witness: a successful wait for a batch listing two jobs in which the
\* batch and a job were each found unfinished once before they finished.
C15_Witness ==
    /\ BatchAndJobs
    /\ Returned({"WaitForBatchDone"})
    /\ ret.err = ErrNil
    /\ Len(ret.val.Jobs) = 2
    /\ LastBatchPoll > 1
    /\ \E i \in 1..Len(polls) : polls[i].kind = "job" /\ polls[i].err = ErrNil /\ ~PollTerminal(i)

\* A job-result request is among the requests of the call.
JobResultRequested == \E i \in 1..Len(log) : log[i].url[2] = "job"

\* C16: WaitForBatchDone(batchID, false) issues no job-result request, and
\* once a batch-status fetch came back with status done or error it has
\* returned that record with a nil error, that fetch being its last request,
\* whatever the record says of its jobs.
C16_BatchOnlyWaitIgnoresJobs ==
    (call.op = "WaitForBatchDone" /\ ~call.waitJobs) =>
        /\ ~JobResultRequested
        /\ \A i \in 1..Len(polls) : polls[i].kind = "batch"
        /\ \A i \in 1..Len(polls) : PollTerminal(i) =>
              /\ i = Len(polls)
              /\ Len(log) = i
              /\ Returned({"WaitForBatchDone"})
              /\ ret.err = ErrNil
              /\ ret.val = fetched.body.val
              /\ ret.val.Status = polls[i].status

\* C16 witness: a wait with waitJobs = false returned a terminal batch
\* record listing two jobs that are still processing.
C16_Witness ==
    /\ call.op = "WaitForBatchDone"
    /\ ~call.waitJobs
    /\ Returned({"WaitForBatchDone"})
    /\ ret.err = ErrNil
    /\ ret.val.Status = STATUS_DONE
    /\ Len(ret.val.Jobs) = 2
    /\ \A k \in 1..2 : ret.val.Jobs[k].Status = "processing"
    /\ Len(log) > 1

\* The wait for batch and jobs is in, or returned from, the wait for a job.
InJobWait == BatchAndJobs /\ call.idx > 0

\* C17: in WaitForBatchDone with waitJobs = true the wait for each listed job
\* starts with a deadline of its own, the time it starts at + Timeout, whatever
\* the batch loop and earlier job waits have used up; and a job wait fails
\* with the timeout error only when more than Timeout seconds have passed
\* since that job wait itself started.
C17_FreshDeadlinePerJob ==
    /\ [][(call'.op = "WaitForBatchDone" /\ call'.waitJobs /\ call'.idx > 0 /\ call'.idx # call.idx) =>
             /\ call'.idx = call.idx + 1
             /\ call'.start = now'
             /\ call'.timeout = now' + client.Timeout]_vars
    /\ [](InJobWait => call.timeout = call.start + client.Timeout)
    /\ []((InJobWait /\ Returned({"WaitForBatchDone"}) /\ ret.err = ErrTimeout) =>
             now > call.start + client.Timeout)

\* C17 witness: a wait under a Timeout of at least a second whose batch loop
\* made one fetch and whose waits for two jobs together lasted at least
\* 2 * Timeout, returned without error.
C17_Witness ==
    /\ InJobWait
    /\ Returned({"WaitForBatchDone"})
    /\ ret.err = ErrNil
    /\ client.Timeout >= 1
    /\ Len(ret.val.Jobs) = 2
    /\ LastBatchPoll = 1
    /\ now - MaxLatency >= 2 * client.Timeout

---------------------------------------------------------------------------
(* Properties of every wait (under SpecBatch and SpecWait) *)

---------------------------------------------------------------------------
(* CreateAndWaitJob and CreateAndWaitBatch *)

CreateOps == {"CreateAndWaitJob", "CreateAndWaitBatch"}

\* The locals of a CreateAndWait call: those of the wait it runs, and what
\* SendJob / SendBatch returned to it (`response, err`) with the requests made.
NoCreated == [err |-> ErrNil, val |-> ZeroCreated, sent |-> <<>>]
CreateCall(op, ID, jobID, waitJobs, t, created) ==
    [op |-> op, batchID |-> ID, jobID |-> jobID, waitJobs |-> waitJobs,
     timeout |-> Deadline(client, t), start |-> t,
     T |-> client.Timeout, I |-> client.Interval,
     result |-> ZeroBatchStatus, idx |-> 0, created |-> created]

\* A CreateAndWait that goes on to wait whatever the submission returned.
ProceedsAlways(err) == TRUE

\* `if err != nil { return ..., err }` after the submission.
Proceeds(err) == err = ErrNil

\* The submission of a CreateAndWait call returned r: the call returns r's
\* error, or goes on into the wait that starts at pc `first` for the ids given.
Created(op, r, ID, jobID, waitJobs, first, zero) ==
    /\ Fresh
    /\ log' = r.sent
    /\ granted' = Grant(granted, r.granted, "autoAuthenticate")
    /\ call' = CreateCall(op, ID, jobID, waitJobs, now, [err |-> r.err, val |-> r.val, sent |-> r.sent])
    /\ hist' = NoHist
    /\ polls' = <<>>
    /\ fetched' = DoFailure(ZeroJobResult)
    /\ IF Proceeds(r.err)
       THEN pc' = first /\ ret' = NoRet
       ELSE pc' = "idle" /\ ret' = [op |-> op, err |-> r.err, val |-> zero]
    /\ UNCHANGED <<client, now>>

\* CreateAndWaitJob: SendJob, then WaitForJobDone(jobID, jobID).
CallCreateAndWaitJob(ctx, service, filePath, facematchFilePath, extraFilePath, metadata, params, fs, authResp, resp, puts) ==
    LET response == SendJob(ctx, client, now, service, filePath, facematchFilePath, extraFilePath, metadata, params, fs, authResp, resp, puts)
        jobID == response.val.Id
    IN  Created("CreateAndWaitJob", response, jobID, jobID, FALSE, "job_fetch", ZeroJobResult)

\* CreateAndWaitBatch: SendBatch, then WaitForBatchDone(response.Id, waitJobs).
CallCreateAndWaitBatch(ctx, service, filePath, metadata, params, waitJobs, fs, authResp, resp, puts) ==
    LET response == SendBatch(ctx, client, now, service, filePath, metadata, params, fs, authResp, resp, puts)
    IN  Created("CreateAndWaitBatch", response, response.val.Id, "", waitJobs, "batch_fetch", ZeroBatchStatus)

\* The inputs of a CreateAndWait call: both flags absent or both "true", all
\* files readable or the document missing, the signed-URL request failed or
\* answered with all three slots, every upload answered 200 or one PUT refused.
CreateParams == {EmptyMap, [k \in {KEY_FACEMATCH, KEY_EXTRA} |-> FLAG_TRUE]}
CreateFiles == {AllFiles, AllFiles \ {DocumentFile}}
CreateAnswers ==
    {DoFailure(ZeroSignedUrl),
     [failed |-> FALSE, status |-> StatusOK,
      body |-> Body(SignedUrlResponse("j1", "url/j1", SlotURL))]}
PutOK == [failed |-> FALSE, status |-> StatusOK, body |-> Body("")]
PutRefused == [failed |-> FALSE, status |-> 500, body |-> Body("")]
CreatePuts == {[i \in 1..3 |-> IF i = k THEN PutRefused ELSE PutOK] : k \in 0..3}

InitCreate ==
    /\ client \in {Configured(t, POOLING_INTERVAL) : t \in 0..MaxBatchTimeout}
    /\ now = 0
    /\ pc = "idle"
    /\ call = CreateCall("none", "", "", FALSE, 0, NoCreated)
    /\ log = <<>>
    /\ fetched = DoFailure(ZeroJobResult)
    /\ hist = NoHist
    /\ ret = NoRet
    /\ granted = [token |-> "t1", by |-> "Authenticate"]
    /\ polls = <<>>

NextCreate ==
    \/ /\ Fresh
       /\ \E p \in CreateParams, fs \in CreateFiles, r \in CreateAnswers, puts \in CreatePuts :
             CallCreateAndWaitJob(Background, "cnh", DocumentFile, FacematchFile, ExtraFile,
                                  Metadata("map", 1), p, fs, DoFailure(""), r, puts)
    \/ /\ Fresh
       /\ \E waitJobs \in BOOLEAN, fs \in CreateFiles, r \in CreateAnswers, puts \in CreatePuts :
             CallCreateAndWaitBatch(Background, "cnh", DocumentFile, Metadata("list", 1),
                                    EmptyMap, waitJobs, fs, DoFailure(""), r, puts)
    \/ \E d \in 0..MaxLatency, a \in AuthAnswers(client, now), r \in JobResponsesOf(call.jobID) :
          JobFetch(d, a, r)
    \/ \E d \in 0..MaxLatency, a \in AuthAnswers(client, now), r \in BatchListResponses :
          BatchFetch(d, a, r)
    \/ Sleep

SpecCreate == InitCreate /\ [][NextCreate]_vars

---------------------------------------------------------------------------
(* Properties of CreateAndWaitJob and CreateAndWaitBatch (under SpecCreate) *)

\* The requests of the call after those of its submission.
AfterSubmission == SubSeq(log, Len(call.created.sent) + 1, Len(log))

\* What the wait of the call has come to, judged from its fetches alone: the
\* error of a failed fetch, the timeout, or success.
LastPoll == polls[Len(polls)]
WaitOutcome ==
    IF LastPoll.err # ErrNil THEN LastPoll.err
    ELSE IF LastPoll.status \in DoneOrError THEN ErrNil
    ELSE ErrTimeout

\* C19: CreateAndWaitJob makes the requests of SendJob with its arguments
\* and, if SendJob failed, returns that error with no status request made;
\* if it succeeded, every further request is the job-result request for
\* (id, id), id being the id SendJob returned, and the call returns what that
\* wait comes to.  CreateAndWaitBatch does the same with SendBatch and the
\* batch-status request for id, followed with waitJobs by job-result requests
\* for jobs of batch id.
C19_CreateAndWaitIsComposition ==
    (call.op \in CreateOps) =>
        LET created == call.created
            id == created.val.Id
        IN  /\ SubSeq(log, 1, Len(created.sent)) = created.sent
            /\ Len(AfterSubmission) = Len(polls)
            /\ created.err # ErrNil =>
                  /\ pc = "idle"
                  /\ log = created.sent
                  /\ ret.op = call.op
                  /\ ret.err = created.err
                  /\ ret.val \in {ZeroJobResult, ZeroBatchStatus}
            /\ created.err = ErrNil =>
                  /\ id = "j1"
                  /\ call.batchID = id
                  /\ call.op = "CreateAndWaitJob" => call.jobID = id
                  /\ \A i \in 1..Len(polls) :
                        /\ AfterSubmission[i] = StatusRequest(polls[i].kind, id, polls[i].id)
                        /\ call.op = "CreateAndWaitJob" => polls[i].kind = "job" /\ polls[i].id = id
                        /\ (call.op = "CreateAndWaitBatch" /\ ~call.waitJobs) => polls[i].kind = "batch"
                  /\ pc = "idle" =>
                        /\ Len(polls) > 0
                        /\ ret.op = call.op
                        /\ ret.err = WaitOutcome
                        /\ ret.err = ErrNil =>
                              ret.val.Status \in DoneOrError

\* C19 witness: a CreateAndWaitJob whose SendJob made the signed-URL request
\* and three uploads, and whose wait polled twice and returned the record.
C19_Witness ==
    /\ call.op = "CreateAndWaitJob"
    /\ Returned({"CreateAndWaitJob"})
    /\ ret.err = ErrNil
    /\ Len(call.created.sent) = 4
    /\ Len(polls) = 2

---------------------------------------------------------------------------
(* Every operation that makes requests, one call at a time *)

\* GetJobsResponse, and the pages the API may answer GetJobs with: no job or
\* one, and a token for the next page or none.
GetJobsResponse(jobs, token) == [Jobs |-> jobs, NextPageToken |-> token]
ZeroGetJobs == GetJobsResponse(<<>>, "")
Pages ==
    {GetJobsResponse(js, tok) : js \in {<<>>, <<JobResultResponse("j1", STATUS_DONE)>>},
                                tok \in {"", "next"}}
PageResponses == HttpResponses(Pages, ZeroGetJobs)

\* The answers to the GetJobs request numbered n: the API has MaxPages pages
\* at most.
PageAnswers(n) ==
    {r \in PageResponses :
        n >= MaxPages => (r.failed \/ r.status # StatusOK \/ ~r.body.valid
                          \/ r.body.val.NextPageToken = "")}

\* What one attempt of an operation came to: the operation (for a status
\* fetch the kind of entity), the error it left, and per attempt what is read
\* from the answer (status and listed jobs; next page token and jobs).
Attempt(kind, id, err, jobs) == [kind |-> kind, id |-> id, err |-> err, status |-> "", jobs |-> jobs]

\* The params of the next GetJobs request: the dates and, after the first
\* page, the token of the page before.
GetJobsParams(start, end) ==
    LET dates == [k \in {"startDate", "endtDate"} |-> IF k = "startDate" THEN start ELSE end]
    IN  IF polls = <<>> THEN dates
        ELSE MapsCopy(dates, [k \in {"nextPageToken"} |-> polls[Len(polls)].id])

\* A GetJobs that keeps the jobs of the last page only.
GatheredNothing(n) == <<>>

RECURSIVE Gathered(_)
\* jobs = append(jobs, res.Jobs...) over the pages fetched so far.
Gathered(n) == IF n = 0 THEN <<>> ELSE Gathered(n - 1) \o polls[n].jobs

\* GetJobs(start, end) is called.
CallGetJobs(start, end) ==
    /\ Fresh
    /\ pc' = "jobs_fetch"
    /\ call' = [WaitCall("GetJobs", "", "", FALSE, now) EXCEPT !.batchID = start, !.jobID = end]
    /\ log' = <<>>
    /\ polls' = <<>>
    /\ hist' = NoHist
    /\ fetched' = DoFailure(ZeroGetJobs)
    /\ ret' = NoRet
    /\ UNCHANGED <<client, now, granted>>

\* A loop of GetJobs that stops one page short of MaxPages, whatever the
\* token of that page.
GetJobsFetchCapped(authResp, resp) ==
    /\ pc = "jobs_fetch"
    /\ LET r == Decoded(get(Background, client, now, <<"ocr", "job", "results">>,
                            GetJobsParams(call.batchID, call.jobID), authResp, resp),
                        ZeroGetJobs)
       IN  /\ log' = log \o r.sent
           /\ polls' = Append(polls, Attempt("jobs", r.val.NextPageToken, r.err, r.val.Jobs))
           /\ granted' = Grant(granted, r.granted, "autoAuthenticate")
           /\ fetched' = resp
           /\ hist' = [hist EXCEPT !.fetches = @ + 1]
           /\ IF r.err # ErrNil
              THEN pc' = "idle" /\ ret' = [op |-> "GetJobs", err |-> r.err, val |-> <<>>]
              ELSE IF r.val.NextPageToken = "" \/ Len(polls) + 1 >= MaxPages - 1
              THEN pc' = "idle" /\ ret' = [op |-> "GetJobs", err |-> ErrNil,
                                           val |-> Gathered(Len(polls)) \o r.val.Jobs]
              ELSE pc' = "jobs_fetch" /\ ret' = ret
    /\ UNCHANGED <<client, call, now>>

\* One turn of the loop of GetJobs.
GetJobsFetch(authResp, resp) ==
    /\ pc = "jobs_fetch"
    /\ LET r == Decoded(get(Background, client, now, <<"ocr", "job", "results">>,
                            GetJobsParams(call.batchID, call.jobID), authResp, resp),
                        ZeroGetJobs)
       IN  /\ log' = log \o r.sent
           /\ polls' = Append(polls, Attempt("jobs", r.val.NextPageToken, r.err, r.val.Jobs))
           /\ granted' = Grant(granted, r.granted, "autoAuthenticate")
           /\ fetched' = resp
           /\ hist' = [hist EXCEPT !.fetches = @ + 1]
           /\ IF r.err # ErrNil
              THEN pc' = "idle" /\ ret' = [op |-> "GetJobs", err |-> r.err, val |-> <<>>]
              ELSE IF r.val.NextPageToken = ""
              THEN pc' = "idle" /\ ret' = [op |-> "GetJobs", err |-> ErrNil,
                                           val |-> Gathered(Len(polls)) \o r.val.Jobs]
              ELSE pc' = "jobs_fetch" /\ ret' = ret
    /\ UNCHANGED <<client, call, now>>

\* A call of an operation that makes one request at most and returned err,
\* leaving the session as c.
Once(op, c, err, sent, token, resp) ==
    /\ Fresh
    /\ client' = c
    /\ log' = sent
    /\ polls' = <<Attempt(op, "", err, <<>>)>>
    /\ ret' = [op |-> op, err |-> err, val |-> ""]
    /\ granted' = Grant(granted, token, op)
    /\ fetched' = resp
    /\ call' = WaitCall(op, "", "", FALSE, now)
    /\ UNCHANGED <<now, pc, hist>>

OnceAuthenticate(resp) ==
    LET r == Authenticate(Background, client, now, "id", "secret", 1, resp)
    IN  Once("Authenticate", r.client, r.err, r.sent, r.granted, resp)

OnceGenerateSignedUrl(resource, metadata, resp) ==
    LET r == GenerateSignedUrl(Background, client, now, "cnh", resource, metadata, EmptyMap, DoFailure(""), resp)
    IN  Once("GenerateSignedUrl", client, r.err, r.sent, "", resp)

OnceUploadFile(url, fs, resp) ==
    LET r == UploadFile(Background, url, DocumentFile, fs, resp)
    IN  Once("UploadFile", client, r.err, r.sent, "", resp)

OnceUploadFileBase64(url, resp) ==
    LET r == UploadFileBase64(Background, url, DocumentFile, resp)
    IN  Once("UploadFileBase64", client, r.err, r.sent, "", resp)

NextCalls ==
    \/ Fresh /\ \E b \in BatchIDs, j \in JobIDs : CallWaitForJobDone(b, j)
    \/ Fresh /\ \E b \in BatchIDs, waitJobs \in BOOLEAN : CallWaitForBatchDone(b, waitJobs)
    \/ \E d \in 0..MaxLatency, a \in AuthAnswers(client, now), r \in JobResponsesOf(call.jobID) :
          JobFetch(d, a, r)
    \/ \E d \in 0..MaxLatency, a \in AuthAnswers(client, now), r \in BatchListResponses :
          BatchFetch(d, a, r)
    \/ Sleep
    \/ CallGetJobs("2024-01-01", "2024-01-02")
    \/ \E a \in AuthAnswers(client, now), r \in PageAnswers(Len(polls) + 1) : GetJobsFetch(a, r)
    \/ \E r \in AuthResponses : OnceAuthenticate(r)
    \/ \E res \in {RESOURCE_JOB, RESOURCE_BATCH}, m \in Metadatas, r \in SignedResponses :
          OnceGenerateSignedUrl(res, m, r)
    \/ \E fs \in {{}, {DocumentFile}}, r \in PutResponses : OnceUploadFile("u_document", fs, r)
    \/ \E r \in PutResponses : OnceUploadFileBase64("u_document", r)

SpecCalls == InitBatch /\ [][NextCalls]_vars

---------------------------------------------------------------------------
(* Properties of every operation that makes requests (under SpecCalls) *)

CallOps == WaitOps \cup {"GetJobs", "Authenticate", "GenerateSignedUrl", "UploadFile", "UploadFileBase64"}

\* The answer to the last request was a transport failure or a status other
\* than 200.
FetchedFailure == fetched.failed \/ fetched.status # StatusOK

\* C20: in Authenticate, GenerateSignedUrl, the uploads, GetJobs and the
\* waits (whose fetches are GetJobResult and GetBatchStatus) every attempt
\* makes one request at most, and an attempt that failed is the last of the
\* call: the call has returned that error and made no request after it, so
\* that a wait is neither asleep nor at another fetch.  An answer that is a
\* transport failure or a status other than 200 makes the attempt fail.
C20_FailedCallNotRetried ==
    (call.op \in CallOps) =>
        /\ Len(log) <= Len(polls)
        /\ \A i \in 1..Len(polls) : polls[i].err # ErrNil =>
              /\ i = Len(polls)
              /\ pc = "idle"
              /\ ret.op = call.op
              /\ ret.err = polls[i].err
        /\ (Len(log) > 0 /\ FetchedFailure) =>
              /\ Len(log) = Len(polls)
              /\ polls[Len(polls)].err =
                    (IF fetched.failed THEN ErrDoingRequest ELSE ErrInvalidStatusCode)
              /\ pc = "idle"
        /\ Len(log) < Len(polls) => polls[Len(polls)].err = ErrReadFile

\* C20 witness: a wait for batch and jobs that slept and polled again, and
\* whose fetch of a job was then answered with a status other than 200: it
\* returned ErrInvalidStatusCode.
C20_Witness ==
    /\ BatchAndJobs
    /\ Returned({"WaitForBatchDone"})
    /\ Len(polls) >= 3
    /\ polls[Len(polls)].kind = "job"
    /\ polls[Len(polls)].err = ErrInvalidStatusCode
    /\ ~fetched.failed
    /\ fetched.status # StatusOK
    /\ ret.err = ErrInvalidStatusCode

\* A GetJobs that failed at its second page.
C20_GetJobsFailedAtSecondPage ==
    /\ Returned({"GetJobs"})
    /\ Len(polls) = 2
    /\ ret.err = ErrDoingRequest

---------------------------------------------------------------------------
(* GetJobs: the pages of a time interval *)

\* The dates GetJobs is called with, the page tokens the API hands out, and
\* its pages: no job or one of two jobs, and a token for the next page or none.
Dates == {"2024-01-01", "2024-01-31"}
PageTokens == {"", "p1", "p2"}
JobPages ==
    {GetJobsResponse(js, tok) :
        js \in {<<>>} \cup {<<JobResultResponse(j, STATUS_DONE)>> : j \in JobIDs},
        tok \in PageTokens}

\* The answers to the GetJobs request numbered n: a failure, or a page; the
\* API has MaxPages pages at most.
JobPageAnswers(n) ==
    {r \in HttpResponses(JobPages, ZeroGetJobs) :
        n >= MaxPages => (r.failed \/ r.status # StatusOK \/ ~r.body.valid
                          \/ r.body.val.NextPageToken = "")}

NextJobs ==
    \/ \E start \in Dates, end \in Dates : CallGetJobs(start, end)
    \/ \E a \in AuthAnswers(client, now), r \in JobPageAnswers(Len(polls) + 1) : GetJobsFetch(a, r)

SpecJobs == InitBatch /\ [][NextJobs]_vars

---------------------------------------------------------------------------
(* Properties of GetJobs (under SpecJobs) *)

RECURSIVE JobsOfPages(_)
\* The job lists of the first n pages fetched, one after the other.
JobsOfPages(n) == IF n = 0 THEN <<>> ELSE JobsOfPages(n - 1) \o polls[n].jobs

\* The page numbered i was answered with status 200 and a decodable page.
PageFetched(i) == polls[i].err = ErrNil

\* C21: GetJobs makes one request per page; it asks for a further page
\* exactly when the page before came with a non-empty nextPageToken, and when
\* page k comes without one it returns, after exactly k requests, the job
\* lists of pages 1..k one after the other in page order.
C21_PagesConcatenatedInOrder ==
    (call.op = "GetJobs") =>
        /\ Len(log) = Len(polls)
        /\ \A i \in 1..Len(polls) :
              /\ i < Len(polls) => PageFetched(i) /\ polls[i].id # ""
              /\ (PageFetched(i) /\ polls[i].id = "") =>
                    /\ i = Len(polls)
                    /\ Returned({"GetJobs"})
                    /\ ret.err = ErrNil
                    /\ ret.val = JobsOfPages(i)
        /\ (pc = "jobs_fetch" /\ Len(polls) > 0) =>
              PageFetched(Len(polls)) /\ polls[Len(polls)].id # ""
        /\ (Returned({"GetJobs"}) /\ ret.err = ErrNil) =>
              PageFetched(Len(polls)) /\ polls[Len(polls)].id = ""

\* C21 witness: three pages, the first with job j2, the second empty, the
\* third with job j1 and no token: GetJobs returned j2, j1 after 3 requests.
C21_Witness ==
    /\ Returned({"GetJobs"})
    /\ ret.err = ErrNil
    /\ Len(log) = 3
    /\ polls[1].jobs = <<JobResultResponse("j2", STATUS_DONE)>>
    /\ polls[2].jobs = <<>>
    /\ polls[3].jobs = <<JobResultResponse("j1", STATUS_DONE)>>
    /\ ret.val = <<JobResultResponse("j2", STATUS_DONE), JobResultResponse("j1", STATUS_DONE)>>

\* C22: every request of GetJobs(start, end) carries the query parameters
\* startDate = start and endDate = end; the first carries no nextPageToken,
\* and every later one carries as nextPageToken the token that came with the
\* page before it.
C22_RequestsCarryDatesAndToken ==
    (call.op = "GetJobs") =>
        \A i \in 1..Len(log) :
            /\ log[i].method = "GET"
            /\ log[i].url = <<"ocr", "job", "results">>
            /\ Lookup(log[i].params, "startDate") = call.batchID
            /\ Lookup(log[i].params, "endDate") = call.jobID
            /\ i = 1 => "nextPageToken" \notin DOMAIN log[i].params
            /\ i > 1 => /\ "nextPageToken" \in DOMAIN log[i].params
                        /\ log[i].params["nextPageToken"] = polls[i - 1].id

\* What the requests of GetJobs do carry: the end date travels under the key
\* "endtDate", the rest is as above.
C22_EndDateSentAsEndtDate ==
    (call.op = "GetJobs") =>
        \A i \in 1..Len(log) :
            /\ Lookup(log[i].params, "startDate") = call.batchID
            /\ Lookup(log[i].params, "endtDate") = call.jobID
            /\ "endDate" \notin DOMAIN log[i].params
            /\ i = 1 => "nextPageToken" \notin DOMAIN log[i].params
            /\ i > 1 => /\ "nextPageToken" \in DOMAIN log[i].params
                        /\ log[i].params["nextPageToken"] = polls[i - 1].id

---------------------------------------------------------------------------
(* SendJobSingleStep *)

\* The map[string]any SendJobSingleStep builds as body: "data" and
\* "metadata", "extra" when params["extra-document"] is "true", "facematch"
\* when params["facematch"] is "true".  type and entries are what isNil reads.
SingleStepBody(file, facematchFile, extraFile, metadata, params) ==
    LET extra == Lookup(params, KEY_EXTRA) = FLAG_TRUE
        facematch == Lookup(params, KEY_FACEMATCH) = FLAG_TRUE
        keys == {"data", "metadata"} \cup (IF extra THEN {"extra"} ELSE {})
                                     \cup (IF facematch THEN {KEY_FACEMATCH} ELSE {})
    IN  [type |-> "map", entries |-> Cardinality(keys), keys |-> keys,
         data |-> file, metadata |-> metadata,
         extra |-> IF extra THEN extraFile ELSE "",
         facematch |-> IF facematch THEN facematchFile ELSE ""]

\* A single step that posts to the signed-URL endpoint of the service.
SendJobSingleStepToSignedUrl(ctx, c, t, service, file, facematchFile, extraFile, metadata, params, authResp, resp) ==
    Decoded(post(ctx, c, t, <<"ocr", RESOURCE_JOB, service>>,
                 SingleStepBody(file, facematchFile, extraFile, metadata, params),
                 params, authResp, resp),
            ZeroCreated)

\* SendJobSingleStep: one POST to {BaseURL}/ocr/job/send/{service}.
SendJobSingleStep(ctx, c, t, service, file, facematchFile, extraFile, metadata, params, authResp, resp) ==
    Decoded(post(ctx, c, t, <<"ocr", "job", "send", service>>,
                 SingleStepBody(file, facematchFile, extraFile, metadata, params),
                 params, authResp, resp),
            ZeroCreated)

\* What is remembered of a SendJobSingleStep call: its arguments.
SingleStepCall(op, service, file, facematchFile, extraFile, metadata, params) ==
    [op |-> op, service |-> service, file |-> file, facematchFile |-> facematchFile,
     extraFile |-> extraFile, metadata |-> metadata, params |-> params]

CallSendJobSingleStep(ctx, service, file, facematchFile, extraFile, metadata, params, authResp, resp) ==
    /\ Submitted("SendJobSingleStep",
                 SendJobSingleStep(ctx, client, now, service, file, facematchFile, extraFile,
                                   metadata, params, authResp, resp),
                 resp)
    /\ call' = SingleStepCall("SendJobSingleStep", service, file, facematchFile, extraFile,
                              metadata, params)

\* The services asked for, and the answers of the API to the single step.
Services == {"cnh", "rg"}
CreatedResponses == HttpResponses({CreatedResponse("j1", "url/j1")}, ZeroCreated)

InitSingle ==
    /\ client = Configured(API_TIMEOUT, POOLING_INTERVAL)
    /\ now = 0
    /\ pc = "idle"
    /\ call = SingleStepCall("none", "", "", "", "", Metadata("map", 0), EmptyMap)
    /\ log = <<>>
    /\ fetched = DoFailure(ZeroCreated)
    /\ hist = NoHist
    /\ ret = NoRet
    /\ granted = [token |-> "t1", by |-> "Authenticate"]
    /\ polls = <<>>

NextSingle ==
    /\ Fresh
    /\ \E service \in Services, m \in JobMetadatas, p \in ParamMaps,
          a \in RefreshAnswers(client, now), r \in CreatedResponses :
          CallSendJobSingleStep(Background, service, DocumentFile, FacematchFile, ExtraFile,
                                m, p, a, r)

SpecSingle == InitSingle /\ [][NextSingle]_vars

---------------------------------------------------------------------------
(* Properties of SendJobSingleStep (under SpecSingle) *)

SingleReturned == Returned({"SendJobSingleStep"}) /\ call.op = "SendJobSingleStep"

\* C23: SendJobSingleStep makes exactly one request, a POST to
\* {base}/ocr/job/send/{service} with the session's token and the caller's
\* query parameters: no signed-URL request and no PUT.  Answered with status
\* 200 and a decodable record it returns the id and status URL of that
\* record; otherwise it returns the error and the zero record.
C23_SingleStepIsOnePost ==
    SingleReturned =>
        /\ Len(log) = 1
        /\ log[1].method = "POST"
        /\ log[1].url = <<"ocr", "job", "send", call.service>>
        /\ log[1].auth = client.Token
        /\ log[1].params = call.params
        /\ \A i \in 1..Len(log) : log[i].method # "PUT" /\ ~IsSignedUrlPost(log[i])
        /\ (~fetched.failed /\ fetched.status = StatusOK /\ fetched.body.valid) =>
              /\ ret.err = ErrNil
              /\ ret.val = CreatedResponse(fetched.body.val.Id, fetched.body.val.StatusURL)
        /\ fetched.failed => ret.err = ErrDoingRequest /\ ret.val = ZeroCreated
        /\ (~fetched.failed /\ fetched.status # StatusOK) =>
              ret.err = ErrInvalidStatusCode /\ ret.val = ZeroCreated
        /\ (~fetched.failed /\ fetched.status = StatusOK /\ ~fetched.body.valid) =>
              ret.err = ErrParsingResponse /\ ret.val = ZeroCreated

\* C23 witness: a single step with both flags "true", answered with status
\* 200, returned the id and the status URL.
C23_Witness ==
    /\ SingleReturned
    /\ Lookup(call.params, KEY_FACEMATCH) = FLAG_TRUE
    /\ Lookup(call.params, KEY_EXTRA) = FLAG_TRUE
    /\ ret.err = ErrNil
    /\ ret.val = CreatedResponse("j1", "url/j1")
    /\ Len(log) = 1

\* The request carries the JSON text of a value as its body.
CarriesJSON(r) == r.body.kind = "json"

\* C24: the POST of SendJobSingleStep carries a JSON body with data = file
\* and metadata = metadata, with facematch = facematchFile exactly when
\* params["facematch"] is "true" and extra = extraFile exactly when
\* params["extra-document"] is "true".
C24_BodyEmbedsFiles ==
    (SingleReturned /\ Len(log) = 1) =>
        /\ CarriesJSON(log[1])
        /\ log[1].body.data.data = call.file
        /\ log[1].body.data.metadata = call.metadata
        /\ (KEY_FACEMATCH \in log[1].body.data.keys) = (Lookup(call.params, KEY_FACEMATCH) = FLAG_TRUE)
        /\ (KEY_FACEMATCH \in log[1].body.data.keys) => log[1].body.data.facematch = call.facematchFile
        /\ ("extra" \in log[1].body.data.keys) = (Lookup(call.params, KEY_EXTRA) = FLAG_TRUE)
        /\ ("extra" \in log[1].body.data.keys) => log[1].body.data.extra = call.extraFile

\* What the POST of SendJobSingleStep does carry: no body at all, whatever
\* file, metadata and params are (the map built is never empty, and post
\* sends a body only when isNil(body) holds).
C24_SingleStepSendsNoBody ==
    (SingleReturned /\ Len(log) = 1) => log[1].body = NoBody

---------------------------------------------------------------------------
(* The signed-URL request and the metadata of the caller *)

SignedOps == {"GenerateSignedUrl", "SendJob", "SendBatch"}

\* What is remembered of a call that requests signed URLs: the service, the
\* resource kind, the metadata and the params of the caller.
SignedCall(op, service, resource, metadata, params) ==
    [op |-> op, service |-> service, resource |-> resource, metadata |-> metadata,
     params |-> params]

CallSignedUrl(ctx, service, resource, metadata, params, authResp, resp) ==
    /\ Submitted("GenerateSignedUrl",
                 GenerateSignedUrl(ctx, client, now, service, resource, metadata, params,
                                   authResp, resp),
                 resp)
    /\ call' = SignedCall("GenerateSignedUrl", service, resource, metadata, params)

CallSendJobWith(ctx, service, metadata, params, authResp, resp, puts) ==
    /\ Submitted("SendJob",
                 SendJob(ctx, client, now, service, DocumentFile, FacematchFile, ExtraFile,
                         metadata, params, AllFiles, authResp, resp, puts),
                 resp)
    /\ call' = SignedCall("SendJob", service, RESOURCE_JOB, metadata, params)

CallSendBatchWith(ctx, service, metadata, params, authResp, resp, puts) ==
    /\ Submitted("SendBatch",
                 SendBatch(ctx, client, now, service, DocumentFile, metadata, params,
                           AllFiles, authResp, resp, puts),
                 resp)
    /\ call' = SignedCall("SendBatch", service, RESOURCE_BATCH, metadata, params)

InitSigned ==
    /\ client = Configured(API_TIMEOUT, POOLING_INTERVAL)
    /\ now = 0
    /\ pc = "idle"
    /\ call = SignedCall("none", "", "", Metadata("nil", 0), EmptyMap)
    /\ log = <<>>
    /\ fetched = DoFailure(ZeroSignedUrl)
    /\ hist = NoHist
    /\ ret = NoRet
    /\ granted = [token |-> "t1", by |-> "Authenticate"]
    /\ polls = <<>>

NextSigned ==
    \/ /\ Fresh
       /\ \E res \in {RESOURCE_JOB, RESOURCE_BATCH}, m \in Metadatas, p \in ParamMaps,
             a \in RefreshAnswers(client, now), r \in SignedAnswers :
             CallSignedUrl(Background, "cnh", res, m, p, a, r)
    \/ /\ Fresh
       /\ \E m \in JobMetadatas, p \in ParamMaps, a \in RefreshAnswers(client, now),
             r \in SignedAnswers, puts \in CreatePuts :
             CallSendJobWith(Background, "cnh", m, p, a, r, puts)
    \/ /\ Fresh
       /\ \E m \in BatchMetadatas, p \in ParamMaps, a \in RefreshAnswers(client, now),
             r \in SignedAnswers, puts \in CreatePuts :
             CallSendBatchWith(Background, "cnh", m, p, a, r, puts)

SpecSigned == InitSigned /\ [][NextSigned]_vars

---------------------------------------------------------------------------
(* Properties of the signed-URL request (under SpecSigned) *)

SignedReturned == Returned(SignedOps) /\ call.op \in SignedOps

\* C25: the first request of GenerateSignedUrl (alone or inside SendJob and
\* SendBatch) is the POST to {base}/ocr/{resource}/{service} with the
\* caller's query parameters, and whenever the metadata passed has an entry
\* the POST carries that metadata as its JSON body.
C25_MetadataAttached ==
    SignedReturned =>
        /\ Len(log) >= 1
        /\ log[1].method = "POST"
        /\ log[1].url = <<"ocr", call.resource, call.service>>
        /\ log[1].params = call.params
        /\ call.metadata.entries > 0 =>
              /\ CarriesJSON(log[1])
              /\ log[1].body.data = call.metadata

\* What the signed-URL request does carry: the caller's query parameters,
\* and as body the JSON text of the metadata when the metadata is nil or
\* empty, nothing at all when it has an entry.
C25_MetadataSentOnlyWhenEmpty ==
    SignedReturned =>
        /\ Len(log) >= 1
        /\ log[1].method = "POST"
        /\ log[1].url = <<"ocr", call.resource, call.service>>
        /\ log[1].params = call.params
        /\ call.metadata.entries > 0 => log[1].body = NoBody
        /\ call.metadata.entries = 0 => CarriesJSON(log[1]) /\ log[1].body.data = call.metadata

---------------------------------------------------------------------------
(* The polling loops under a context that may be cancelled *)

\* The locals of a wait and the state of its ctx: whether it was cancelled,
\* and how many status fetches the wait had made when it was.
CtxCall(op, batchID, jobID, waitJobs, t) ==
    [op |-> op, batchID |-> batchID, jobID |-> jobID, waitJobs |-> waitJobs,
     timeout |-> Deadline(client, t), start |-> t,
     T |-> client.Timeout, I |-> client.Interval,
     result |-> ZeroBatchStatus, idx |-> 0, cancelled |-> FALSE, fetchesAtCancel |-> 0]

\* WaitForJobDone(ctx, batchID, jobID) or WaitForBatchDone(ctx, ID, false) is
\* called with a ctx not yet cancelled.
CallWaitWithCtx(op, batchID, jobID) ==
    /\ Fresh
    /\ pc' = IF op = "WaitForJobDone" THEN "job_fetch" ELSE "batch_fetch"
    /\ call' = CtxCall(op, batchID, jobID, FALSE, now)
    /\ log' = <<>>
    /\ hist' = NoHist
    /\ fetched' = DoFailure(ZeroJobResult)
    /\ ret' = NoRet
    /\ polls' = <<>>
    /\ UNCHANGED <<client, now, granted>>

\* The caller cancels ctx while the wait runs.
Cancel ==
    /\ pc # "idle"
    /\ ~call.cancelled
    /\ call' = [call EXCEPT !.cancelled = TRUE, !.fetchesAtCancel = Len(polls)]
    /\ UNCHANGED <<client, now, pc, log, fetched, hist, ret, granted, polls>>

\* What HttpClient.Do (the http.Client of NewClient) returns for a request
\* built with ctx: an error once ctx is cancelled, an answer otherwise.
DoWithCtx(answers, zero) == IF call.cancelled THEN {DoFailure(zero)} ELSE answers

\* time.Sleep is entered: nothing is looked at before it.
BeginSleep ==
    /\ pc \in {"job_sleep", "batch_sleep"}
    /\ pc' = IF pc = "job_sleep" THEN "job_asleep" ELSE "batch_asleep"
    /\ UNCHANGED <<client, now, call, log, fetched, hist, ret, granted, polls>>

\* time.Sleep returns after Interval seconds, cancelled or not.
EndSleep ==
    /\ pc \in {"job_asleep", "batch_asleep"}
    /\ now' = now + client.Interval
    /\ pc' = IF pc = "job_asleep" THEN "job_fetch" ELSE "batch_fetch"
    /\ hist' = [hist EXCEPT !.sleeps = @ + 1]
    /\ UNCHANGED <<client, call, log, fetched, ret, granted, polls>>

NextCancel ==
    \/ \E b \in BatchIDs, j \in JobIDs : CallWaitWithCtx("WaitForJobDone", b, j)
    \/ \E b \in BatchIDs : CallWaitWithCtx("WaitForBatchDone", b, "")
    \/ Cancel
    \/ \E d \in 0..MaxLatency, a \in AuthAnswers(client, now),
          r \in DoWithCtx(JobResponsesOf(call.jobID), ZeroJobResult) : JobFetch(d, a, r)
    \/ \E d \in 0..MaxLatency, a \in AuthAnswers(client, now),
          r \in DoWithCtx(BatchRecordResponses, ZeroBatchStatus) : BatchFetch(d, a, r)
    \/ BeginSleep
    \/ EndSleep

InitCancel ==
    /\ client \in {Configured(t, POOLING_INTERVAL) : t \in 0..MaxBatchTimeout}
    /\ now = 0
    /\ pc = "idle"
    /\ call = CtxCall("none", "", "", FALSE, 0)
    /\ log = <<>>
    /\ fetched = DoFailure(ZeroJobResult)
    /\ hist = NoHist
    /\ ret = NoRet
    /\ granted = [token |-> "t1", by |-> "Authenticate"]
    /\ polls = <<>>

SpecCancel == InitCancel /\ [][NextCancel]_vars

---------------------------------------------------------------------------
(* Properties of the polling loops under cancellation (under SpecCancel) *)

AtSleep == pc \in {"job_sleep", "batch_sleep"}
Asleep == pc \in {"job_asleep", "batch_asleep"}

\* Once ctx is cancelled the wait makes at most one more status fetch, and
\* that fetch ends it with an error.
CancelEndsWaitAtNextFetch ==
    (call.op \in WaitOps /\ call.cancelled) =>
        /\ Len(polls) <= call.fetchesAtCancel + 1
        /\ Len(polls) = call.fetchesAtCancel + 1 =>
              /\ Returned(WaitOps)
              /\ ret.err = ErrDoingRequest

\* C26: when the ctx of WaitForJobDone or WaitForBatchDone is cancelled, no
\* sleep of the poll interval is entered afterwards (the loop looks at ctx
\* before each sleep), and the wait returns an error at its next status
\* fetch at the latest.
C26_CancellationHonoured ==
    /\ [][(call.op \in WaitOps /\ call.cancelled /\ AtSleep) => ~Asleep']_vars
    /\ []CancelEndsWaitAtNextFetch

\* What holds of a cancelled wait: its next status fetch fails and ends it.
C26_CancelSeenAtNextFetchOnly == CancelEndsWaitAtNextFetch

\* A wait whose ctx was cancelled after a fetch found the record unfinished,
\* and which has none the less slept a whole interval since.
C26_SleptAfterCancel ==
    /\ call.op \in WaitOps
    /\ call.cancelled
    /\ pc \in {"job_fetch", "batch_fetch"}
    /\ Len(polls) = call.fetchesAtCancel
    /\ Len(polls) > 0
    /\ hist.sleeps = Len(polls)

---------------------------------------------------------------------------
(* Properties of the setters (under Spec) *)

\* C27: SetAutoRefresh(id, secret, expires) stores the credentials and the
\* token lifetime, switches auto-refresh on and sets the expiry to the time of
\* the call; it sends no request, obtains no token and leaves the session's
\* token, timeout and interval as they were.  The authenticated call that
\* follows (any call made after that time) is the one that authenticates: its
\* first request is the authentication request.
C27_SetAutoRefreshOnlyStores ==
    /\ [][(call'.op = "SetAutoRefresh") =>
             /\ client'.ClientID = "id1"
             /\ client'.ClientSecret = "s1"
             /\ client'.Expires = call'.expires
             /\ client'.AutoRefresh
             /\ client'.ExpiresAt = now
             /\ client'.Token = client.Token
             /\ client'.Timeout = client.Timeout
             /\ client'.Interval = client.Interval
             /\ log' = <<>>
             /\ granted' = granted
             /\ now' = now]_vars
    /\ []((AutoRefreshCall /\ call.at > call.expiresAt) =>
             Len(log) >= 1 /\ IsAuthRequest(log[1]))

\* C27 witness: on a session that never held a token, an authenticated call
\* made after SetAutoRefresh authenticated first and was granted a token.
C27_Witness ==
    /\ AutoRefreshCall
    /\ client.Token = ""
    /\ client.ClientID = "id1"
    /\ call.at > call.expiresAt
    /\ Len(log) = 2
    /\ IsAuthRequest(log[1])
    /\ granted.by = "autoAuthenticate"

---------------------------------------------------------------------------
(* The setters of the session *)

\* The values the setters are called with.
URLs == {BASE_URL, AUTH_BASE_URL, "http://localhost:8080"}
HttpClients == {DefaultClient, "mock"}

\* The setter that ran last and its argument.
SetCall(op, url, n, httpClient) ==
    [op |-> op, url |-> url, n |-> n, httpClient |-> httpClient]

\* What a setter leaves alone: it sends nothing and returns nothing.
SetterFrame == UNCHANGED <<now, pc, log, fetched, hist, ret, granted, polls>>

SetBaseURL(url) ==
    /\ client' = [client EXCEPT !.BaseURL = url]
    /\ call' = SetCall("SetBaseURL", url, 0, "")
    /\ SetterFrame

SetAuthBaseURL(url) ==
    /\ client' = [client EXCEPT !.AuthBaseURL = url]
    /\ call' = SetCall("SetAuthBaseURL", url, 0, "")
    /\ SetterFrame

SetHttpClient(httpClient) ==
    /\ client' = [client EXCEPT !.HttpClient = httpClient]
    /\ call' = SetCall("SetHttpClient", "", 0, httpClient)
    /\ SetterFrame

SetInterval(interval) ==
    /\ client' = [client EXCEPT !.Interval = interval]
    /\ call' = SetCall("SetInterval", "", interval, "")
    /\ SetterFrame

\* A SetTimeout that also resets the interval to its default.
SetTimeoutResettingInterval(timeout) ==
    /\ client' = [client EXCEPT !.Timeout = timeout, !.Interval = POOLING_INTERVAL]
    /\ call' = SetCall("SetTimeout", "", timeout, "")
    /\ SetterFrame

SetTimeout(timeout) ==
    /\ client' = [client EXCEPT !.Timeout = timeout]
    /\ call' = SetCall("SetTimeout", "", timeout, "")
    /\ SetterFrame

InitSets ==
    /\ client = NewClient
    /\ now = 0
    /\ pc = "idle"
    /\ call = SetCall("NewClient", "", 0, "")
    /\ log = <<>>
    /\ fetched = DoFailure("")
    /\ hist = NoHist
    /\ ret = NoRet
    /\ granted = NoGrant
    /\ polls = <<>>

NextSets ==
    \/ \E url \in URLs : SetBaseURL(url)
    \/ \E url \in URLs : SetAuthBaseURL(url)
    \/ \E h \in HttpClients : SetHttpClient(h)
    \/ \E i \in 0..MaxInterval : SetInterval(i)
    \/ \E t \in 0..MaxTimeout : SetTimeout(t)

SpecSets == InitSets /\ [][NextSets]_vars

\* C28: NewClient() has poll timeout 30, poll interval 1, the default base
\* URLs and transport, auto-refresh off and an empty token; from there, in any
\* order of calls, each of SetBaseURL, SetAuthBaseURL, SetInterval, SetTimeout
\* and SetHttpClient sets its own field to its argument and leaves every other
\* field of the session as it was, and the fields no setter owns keep the
\* values of NewClient.
C28_SettersChangeOwnFieldOnly ==
    /\ client.Timeout = 30 /\ client.Interval = 1
    /\ client.BaseURL = BASE_URL /\ client.AuthBaseURL = AUTH_BASE_URL
    /\ client.HttpClient = DefaultClient
    /\ ~client.AutoRefresh /\ client.Token = ""
    /\ [][/\ (call'.op = "SetBaseURL") =>
               client' = [client EXCEPT !.BaseURL = call'.url]
          /\ (call'.op = "SetAuthBaseURL") =>
               client' = [client EXCEPT !.AuthBaseURL = call'.url]
          /\ (call'.op = "SetHttpClient") =>
               client' = [client EXCEPT !.HttpClient = call'.httpClient]
          /\ (call'.op = "SetInterval") =>
               client' = [client EXCEPT !.Interval = call'.n]
          /\ (call'.op = "SetTimeout") =>
               client' = [client EXCEPT !.Timeout = call'.n]]_vars
    /\ [](/\ client.Token = "" /\ ~client.AutoRefresh
          /\ client.ClientID = "" /\ client.ClientSecret = ""
          /\ client.Expires = 0 /\ client.ExpiresAt = 0)

\* C28 witness: after the five setters have run, SetTimeout last, every field
\* a setter owns differs from its default and the interval set earlier stands.
C28_Witness ==
    /\ call.op = "SetTimeout"
    /\ client.Timeout = 0
    /\ client.Interval = MaxInterval
    /\ client.BaseURL = "http://localhost:8080"
    /\ client.AuthBaseURL = "http://localhost:8080"
    /\ client.HttpClient = "mock"
    /\ client.Token = ""

---------------------------------------------------------------------------
(* Two goroutines on one session *)

\* Two goroutines each run GetJobResult once on the same *Client, which has
\* auto-refresh on and an expired token.  The code holds no lock (the Client
\* struct has no mutex and no operation synchronises); `mutex` says whether
\* the caller wraps each operation in a lock of their own.  An operation is
\* split where the scheduler can switch: get's value receiver copies the
\* session, autoAuthenticate tests the copy and hands the token request to
\* HttpClient.Do, Authenticate handles the answer and writes the copy, request
\* hands the GET to HttpClient.Do.
Procs == {1, 2}

ProcStart == [pc |-> "idle", copy |-> NewClient, auths |-> 0, err |-> ErrNil]

ConcCall(mutex, procs) == [op |-> "Concurrent", mutex |-> mutex, procs |-> procs]

Running(p) == call.procs[p].pc \notin {"idle", "done"}

\* client.get(...): the receiver of get and request is a copy of *client.
CopySession(p) ==
    /\ call.procs[p].pc = "idle"
    /\ call.mutex => \A q \in Procs \ {p} : ~Running(q)
    /\ call' = [call EXCEPT !.procs[p].pc = "copied", !.procs[p].copy = client]
    /\ UNCHANGED <<client, now, pc, log, fetched, hist, ret, granted, polls>>

\* autoAuthenticate on the copy: the test, and with it Authenticate up to
\* HttpClient.Do.
TestExpiry(p) ==
    LET me == call.procs[p]
        c  == me.copy
    IN  /\ me.pc = "copied"
        /\ IF c.AutoRefresh /\ After(now, c.ExpiresAt)
           THEN /\ call' = [call EXCEPT !.procs[p].pc = "authenticating",
                                        !.procs[p].auths = me.auths + 1]
                /\ log' = Append(log, AuthRequest(c.ClientID, c.ClientSecret, c.Expires))
           ELSE /\ call' = [call EXCEPT !.procs[p].pc = "sending"]
                /\ log' = log
        /\ UNCHANGED <<client, now, pc, fetched, hist, ret, granted, polls>>

\* Authenticate from the answer of HttpClient.Do on: the token and the expiry
\* are written through the pointer autoAuthenticate was given, the copy.
AuthAnswered(p, authResp) ==
    LET me == call.procs[p]
        c  == me.copy
        r  == Authenticate(Background, c, now, c.ClientID, c.ClientSecret, c.Expires, authResp)
    IN  /\ me.pc = "authenticating"
        /\ call' = [call EXCEPT !.procs[p].copy = r.client,
                                !.procs[p].err = r.err,
                                !.procs[p].pc = IF r.err = ErrNil THEN "sending" ELSE "done"]
        /\ granted' = IF r.err = ErrNil THEN Grant(granted, r.granted, "autoAuthenticate")
                      ELSE granted
        /\ UNCHANGED <<client, now, pc, log, fetched, hist, ret, polls>>

\* request: the GET with the copy's token; the copy is dropped on return.
SendGet(p) ==
    LET me == call.procs[p]
    IN  /\ me.pc = "sending"
        /\ log' = Append(log, Request("GET", <<"ocr", "job", "result", "b1", "j1">>,
                                      me.copy.Token, NoBody, EmptyMap))
        /\ call' = [call EXCEPT !.procs[p].pc = "done"]
        /\ UNCHANGED <<client, now, pc, fetched, hist, ret, granted, polls>>

\* The session after NewClient and SetAutoRefresh("id1", "s1", e) at time 0,
\* one second later.
InitConc ==
    /\ client \in {[NewClient EXCEPT !.ClientID = "id1", !.ClientSecret = "s1",
                                     !.Expires = e, !.AutoRefresh = TRUE,
                                     !.ExpiresAt = 0] : e \in 1..MaxExpires}
    /\ now = 1
    /\ pc = "idle"
    /\ call \in {ConcCall(m, [p \in Procs |-> ProcStart]) : m \in BOOLEAN}
    /\ log = <<>>
    /\ fetched = DoFailure("")
    /\ hist = NoHist
    /\ ret = NoRet
    /\ granted = NoGrant
    /\ polls = <<>>

NextConc ==
    \/ \E p \in Procs : CopySession(p)
    \/ \E p \in Procs : TestExpiry(p)
    \/ \E p \in Procs : \E authResp \in AuthResponses : AuthAnswered(p, authResp)
    \/ \E p \in Procs : SendGet(p)

SpecConc == InitConc /\ [][NextConc]_vars

BothDone == \A p \in Procs : call.procs[p].pc = "done"

\* C29: when the caller imposes mutual exclusion on the two operations, the
\* expired token is renewed by exactly one authentication request: the first
\* operation authenticates and the second finds the session fresh.
C29_OneAuthenticationUnderMutualExclusion ==
    (call.mutex /\ BothDone /\ \A p \in Procs : call.procs[p].err = ErrNil) =>
        AuthRequestsIn(log) = 1

\* C29, the part the code has: no operation takes a lock, and without a lock
\* of the caller's both operations can be past the expiry test before either
\* has an answer, so both send an authentication request.
C29_BothAuthenticateWithoutLock ==
    /\ ~call.mutex
    /\ \A p \in Procs : call.procs[p].pc = "authenticating"
    /\ AuthRequestsIn(log) = 2

\* C29: the two operations only read the caller's session; what they
\* write is their own copy, with or without a lock.
C29_OperationsWriteCopiesOnly ==
    /\ client.Token = "" /\ client.ExpiresAt = 0
    /\ call.mutex => \A p \in Procs : \A q \in Procs \ {p} : ~(Running(p) /\ Running(q))
    /\ \A p \in Procs : call.procs[p].auths <= 1

---------------------------------------------------------------------------
(* Termination of the waits *)

\* A clock value no wait of this model reaches: each of the 1 + MaxJobs loops
\* of a call ends within Timeout + Interval + latency of its start.
ClockCap == MaxStart + (MaxJobs + 1) * (MaxBatchTimeout + MaxInterval + 2 * MaxLatency + 1)

\* One iteration of WaitForJobDone up to its sleep, the clock bounded.
PollJob(d, resp) ==
    /\ pc = "job_fetch"
    /\ now + d <= ClockCap
    /\ LET r == GetJobResult(Background, client, now, call.batchID, call.jobID, DoFailure(""), resp)
           t == now + d
           it == Iteration(r, t, call.timeout, ZeroJobResult)
       IN  /\ now' = t
           /\ fetched' = resp
           /\ IF it.next = "sleep"
              THEN pc' = "job_sleep" /\ UNCHANGED <<call, ret>>
              ELSE JobReturn(it.val, it.err, t)
    /\ UNCHANGED <<client, log, hist, granted, polls>>

\* One iteration of the batch loop of WaitForBatchDone up to its sleep, the
\* clock bounded.
PollBatch(d, resp) ==
    /\ pc = "batch_fetch"
    /\ now + d <= ClockCap
    /\ LET r == GetBatchStatus(Background, client, now, call.batchID, DoFailure(""), resp)
           t == now + d
           it == Iteration(r, t, call.timeout, ZeroBatchStatus)
       IN  /\ now' = t
           /\ fetched' = resp
           /\ IF it.next = "sleep"
              THEN pc' = "batch_sleep" /\ UNCHANGED <<call, ret>>
              ELSE IF it.err # ErrNil
              THEN /\ pc' = "idle"
                   /\ ret' = [op |-> call.op, err |-> it.err, val |-> ZeroBatchStatus]
                   /\ UNCHANGED call
              ELSE IF EntersJobLoop(call.waitJobs, Result(it.val))
              THEN /\ pc' = "job_fetch"
                   /\ call' = [call EXCEPT !.result = Result(it.val),
                                           !.idx = 1,
                                           !.jobID = Result(it.val).Jobs[1].JobID,
                                           !.timeout = JobDeadline(client, t, call.timeout),
                                           !.start = t]
                   /\ UNCHANGED ret
              ELSE /\ pc' = "idle"
                   /\ ret' = [op |-> call.op, err |-> ErrNil, val |-> Result(it.val)]
                   /\ call' = [call EXCEPT !.result = Result(it.val)]
    /\ UNCHANGED <<client, log, hist, granted, polls>>

\* time.Sleep(Interval seconds) of either loop, the clock bounded.
Nap ==
    /\ pc \in {"job_sleep", "batch_sleep"}
    /\ now + client.Interval <= ClockCap
    /\ now' = now + client.Interval
    /\ pc' = IF pc = "job_sleep" THEN "job_fetch" ELSE "batch_fetch"
    /\ UNCHANGED <<client, call, log, fetched, hist, ret, granted, polls>>

\* NewClient, SetTimeout, SetInterval with a positive interval, Authenticate.
InitLive ==
    /\ client \in {Configured(t, i) : t \in 0..MaxBatchTimeout, i \in 1..MaxInterval}
    /\ now = 0
    /\ pc = "idle"
    /\ call = WaitCall("none", "", "", FALSE, 0)
    /\ log = <<>>
    /\ fetched = DoFailure(ZeroJobResult)
    /\ hist = NoHist
    /\ ret = NoRet
    /\ granted = [token |-> "t1", by |-> "Authenticate"]
    /\ polls = <<>>

AnyPollJob == \E d \in 0..MaxLatency, r \in JobResponsesOf(call.jobID) : PollJob(d, r)
AnyPollBatch == \E d \in 0..MaxLatency, r \in BatchListResponses : PollBatch(d, r)

NextLive ==
    \/ \E b \in BatchIDs, j \in JobIDs : CallWaitForJobDone(b, j)
    \/ \E b \in BatchIDs, waitJobs \in BOOLEAN : CallWaitForBatchDone(b, waitJobs)
    \/ AnyPollJob
    \/ AnyPollBatch
    \/ Nap

\* Every fetch returns and every sleep ends: the goroutine running the wait
\* is not starved.
SpecLive ==
    /\ InitLive
    /\ [][NextLive]_vars
    /\ WF_vars(AnyPollJob)
    /\ WF_vars(AnyPollBatch)
    /\ WF_vars(Nap)

InWait == pc # "idle"

WaitEnded == pc = "idle" /\ ret.op \in WaitOps

\* How a wait may end: with a terminal record, with the error of a fetch, or
\* with the timeout error.
EndedProperly ==
    \/ ret.err = ErrNil /\ ret.val.Status \in {STATUS_DONE, STATUS_ERROR}
    \/ ret.err \in {ErrDoingRequest, ErrInvalidStatusCode, ErrParsingResponse}
    \/ ret.err = ErrTimeout

\* C30: with a positive interval, a finite timeout, every fetch returning and
\* every sleep ending, every call of WaitForJobDone and of WaitForBatchDone
\* returns, whatever statuses the server answers: with a terminal record, a
\* fetch error or the timeout error.  (The clock bound of the model is never
\* what stops a wait.)
C30_WaitsTerminate ==
    /\ InWait ~> WaitEnded
    /\ [](WaitEnded => EndedProperly)
    /\ [](now + MaxLatency + MaxInterval <= ClockCap)

\* C30 witness: a WaitForBatchDone that waited for its jobs saw nothing but
\* unfinished job records and ended with the timeout error in the wait for
\* the last listed job.
C30_Witness ==
    /\ WaitEnded
    /\ ret.op = "WaitForBatchDone"
    /\ ret.err = ErrTimeout
    /\ call.idx = MaxJobs
    /\ now > call.timeout

---------------------------------------------------------------------------
(* get and post on a session whose token may have expired *)

\* What is remembered of a call of get or post: the context, the time, the
\* auto-refresh flag and expiry found in the session, and what the token
\* endpoint answered (had it been asked).
RefreshCall(op, ctx, authResp) ==
    [op |-> op, ctx |-> ctx, at |-> now, auto |-> client.AutoRefresh,
     expiresAt |-> client.ExpiresAt, authResp |-> authResp]

\* The end of a get or post with response r.
Requested(op, ctx, r, authResp, resp) ==
    /\ log' = r.sent
    /\ ret' = [op |-> op, err |-> r.err, val |-> ZeroJobResult]
    /\ granted' = Grant(granted, r.granted, "autoAuthenticate")
    /\ call' = RefreshCall(op, ctx, authResp)
    /\ fetched' = resp
    /\ UNCHANGED <<client, now, pc, hist, polls>>

CallGet(ctx, authResp, resp) ==
    Requested("get", ctx,
              get(ctx, client, now, <<"ocr", "job", "result", "b1", "j1">>, EmptyMap,
                  authResp, resp),
              authResp, resp)

CallPost(ctx, body, authResp, resp) ==
    Requested("post", ctx,
              post(ctx, client, now, <<"ocr", RESOURCE_JOB, "cnh">>, body, EmptyMap,
                   authResp, resp),
              authResp, resp)

\* A second passes.
Second ==
    /\ now <= MaxSkew
    /\ now' = now + 1
    /\ UNCHANGED <<client, pc, call, log, fetched, hist, ret, granted, polls>>

\* NewClient, with or without SetAutoRefresh("id1", "s1", e) at time 0.
InitRefresh ==
    /\ client \in {NewClient} \cup
                  {[NewClient EXCEPT !.ClientID = "id1", !.ClientSecret = "s1",
                                     !.Expires = e, !.AutoRefresh = TRUE,
                                     !.ExpiresAt = 0] : e \in 1..MaxExpires}
    /\ now = 0
    /\ pc = "idle"
    /\ call = RefreshCall("none", Background, DoFailure(""))
    /\ log = <<>>
    /\ fetched = DoFailure("")
    /\ hist = NoHist
    /\ ret = NoRet
    /\ granted = NoGrant
    /\ polls = <<>>

\* The answers of the API to the request itself: get and post hand the body
\* back undecoded.
PlainResponses == HttpResponses({"{}"}, "")

NextRefresh ==
    \/ Second
    \/ \E ctx \in Ctxs, a \in AuthAnswers(client, now), r \in PlainResponses :
          CallGet(ctx, a, r)
    \/ \E ctx \in Ctxs, m \in Metadatas, a \in AuthAnswers(client, now), r \in PlainResponses :
          CallPost(ctx, m, a, r)

SpecRefresh == InitRefresh /\ [][NextRefresh]_vars

\* The last get or post found auto-refresh on and the token expired.
Reauthenticated == call.op \in {"get", "post"} /\ call.auto /\ call.at > call.expiresAt

\* The error Authenticate returns for the answer a under context ctx
\* (ErrNil when it succeeds).
AuthErrorOf(ctx, a) ==
    IF ~Mountable(ctx) THEN ErrMountingRequest
    ELSE IF a.failed THEN ErrDoingRequest
    ELSE IF a.status # StatusOK THEN ErrInvalidStatusCode
    ELSE IF ~a.body.valid THEN ErrParsingResponse
    ELSE ErrNil

\* C31: when the re-authentication triggered by a get or post (auto-refresh
\* on, token expired) fails, the call returns the error of that
\* authentication and the original request is not handed to the transport:
\* the only request sent, if any, is the authentication request.
C31_FailedRefreshStopsTheCall ==
    (Reauthenticated /\ AuthErrorOf(call.ctx, call.authResp) # ErrNil) =>
        /\ ret.err = AuthErrorOf(call.ctx, call.authResp)
        /\ \A i \in 1..Len(log) : IsAuthRequest(log[i])
        /\ Len(log) <= 1

\* C31 witness: a post whose re-authentication was answered with a status
\* other than 200 returned ErrInvalidStatusCode after the authentication
\* request alone, although the API would have answered 200.
C31_Witness ==
    /\ Reauthenticated
    /\ call.op = "post"
    /\ ~call.authResp.failed /\ call.authResp.status # StatusOK
    /\ ret.err = ErrInvalidStatusCode
    /\ Len(log) = 1 /\ IsAuthRequest(log[1])
    /\ ~fetched.failed /\ fetched.status = StatusOK

---------------------------------------------------------------------------
(* Outcome of a submission (under SpecSend) *)

\* The last call was one of the four submissions through signed URLs.
SubmissionReturned == Idle /\ ret.op \in UploadOps

\* The error GenerateSignedUrl returns for the answer to its POST.
SignedUrlErrorOf(resp) ==
    IF resp.failed THEN ErrDoingRequest
    ELSE IF resp.status # StatusOK THEN ErrInvalidStatusCode
    ELSE IF ~resp.body.valid THEN ErrParsingResponse
    ELSE ErrNil

IsPost(r) == r.method = "POST" /\ r.url[1] = "ocr" /\ r.url[3] = call.service

\* C32: in SendJob, SendJobBase64, SendBatch and SendBatchBase64, when the
\* signed-URL request fails (transport, status other than 200, undecodable
\* body) the operation returns that error and no record, and the signed-URL
\* POST is the only request made: no upload.  A success is returned only
\* when the signed-URL request succeeded and every upload of the call
\* succeeded, and it carries the Id and StatusURL of the signed-URL record.
C32_NoUploadAfterFailedSignedUrl ==
    SubmissionReturned =>
        /\ SignedUrlErrorOf(fetched) # ErrNil =>
              /\ ret.err = SignedUrlErrorOf(fetched)
              /\ ret.val = ZeroCreated
              /\ Len(log) = 1 /\ IsPost(log[1])
        /\ ret.err = ErrNil =>
              /\ SignedUrlErrorOf(fetched) = ErrNil
              /\ \A k \in 1..Len(UploadSlots) : ~UploadFails(UploadSlots[k])
              /\ Len(log) = 1 + Len(UploadSlots)
              /\ \A k \in 1..Len(UploadSlots) : IsPutTo(log[1 + k], UploadSlots[k])
              /\ ret.val = CreatedResponse(fetched.body.val.Id, fetched.body.val.StatusURL)

\* C32 witness: a SendBatch whose signed-URL POST was answered with a status
\* other than 200 returned ErrInvalidStatusCode after that POST alone,
\* although the file could be read and the storage would have accepted it.
C32_Witness ==
    /\ SubmissionReturned
    /\ ret.op = "SendBatch"
    /\ ~fetched.failed /\ fetched.status # StatusOK
    /\ ret.err = ErrInvalidStatusCode
    /\ Len(log) = 1
    /\ ~UploadFails("document")

\* A SendJob that succeeded after its three uploads and handed back the Id
\* and StatusURL of the signed-URL record.
C32_SucceededAfterAllUploads ==
    /\ SubmissionReturned
    /\ ret.op = "SendJob"
    /\ ret.err = ErrNil
    /\ Len(log) = 4
    /\ ret.val = CreatedResponse("j1", "url/j1")

---------------------------------------------------------------------------
(* Failure of a job wait inside WaitForBatchDone (under SpecBatch) *)

\* The last status fetch of the call was for a job and did not come back
\* with a terminal record: it failed, or the record was unfinished.
LastJobPollNotTerminal ==
    /\ Len(polls) > 0
    /\ polls[Len(polls)].kind = "job"
    /\ ~PollTerminal(Len(polls))

\* C33: in WaitForBatchDone with waitJobs = true, when the wait for a listed
\* job fails (its fetch failed, or its deadline passed on an unfinished
\* record), the call returns that error with an empty batch record, the
\* failing job is the one the loop was at, and no job listed after it was
\* polled.
C33_FailedJobWaitEndsBatchWait ==
    (BatchAndJobs /\ Returned({"WaitForBatchDone"}) /\ LastJobPollNotTerminal) =>
        LET last == polls[Len(polls)]
            listed == polls[LastBatchPoll].jobs
        IN  /\ ret.err = (IF last.err # ErrNil THEN last.err ELSE ErrTimeout)
            /\ ret.val = ZeroBatchStatus
            /\ call.idx \in 1..Len(listed)
            /\ last.id = listed[call.idx]
            /\ \A k \in (call.idx + 1)..Len(listed) :
                  \A i \in 1..Len(polls) : ~(polls[i].kind = "job" /\ polls[i].id = listed[k])
            /\ \A i \in 1..Len(log) : \A k \in (call.idx + 1)..Len(listed) :
                  log[i] # StatusRequest("job", call.batchID, listed[k])

\* C33 witness: the batch record listed two jobs, the fetch for the first
\* failed, and the wait returned that error without a request for the second.
C33_Witness ==
    /\ BatchAndJobs
    /\ Returned({"WaitForBatchDone"})
    /\ LastJobPollNotTerminal
    /\ Len(polls[LastBatchPoll].jobs) = 2
    /\ call.idx = 1
    /\ polls[Len(polls)].err = ErrInvalidStatusCode
    /\ ret.err = ErrInvalidStatusCode
    /\ ret.val = ZeroBatchStatus

\* The same with the timeout error: the first job stayed unfinished past its
\* deadline.
C33_FirstJobTimedOut ==
    /\ BatchAndJobs
    /\ Returned({"WaitForBatchDone"})
    /\ LastJobPollNotTerminal
    /\ Len(polls[LastBatchPoll].jobs) = 2
    /\ call.idx = 1
    /\ polls[Len(polls)].err = ErrNil
    /\ ret.err = ErrTimeout

---------------------------------------------------------------------------
(* Order of the terminal check and the deadline check (under SpecWait) *)

\* A wait has returned; its last status fetch is polls[Len(polls)].
WaitReturned == Returned(WaitOps) /\ call.op \in WaitOps

\* C34: every wait that returns has made at least one status fetch, whatever
\* the Timeout; when its last fetch came back with a terminal record the wait
\* returns that record without error, even if the fetch completed after the
\* deadline; and the timeout error is returned only after a fetch that came
\* back, after the deadline, with a record that is not terminal.
C34_TerminalCheckBeforeDeadline ==
    WaitReturned =>
        /\ Len(polls) >= 1
        /\ Len(log) >= 1
        /\ PollTerminal(Len(polls)) =>
              /\ ret.err = ErrNil
              /\ ret.val.Status = polls[Len(polls)].status
        /\ ret.err = ErrTimeout =>
              /\ polls[Len(polls)].err = ErrNil
              /\ polls[Len(polls)].status \notin DoneOrError
              /\ now > call.timeout

\* C34 witness: under Timeout 0 the first fetch of a wait took longer than
\* the timeout and came back with a terminal record, which was returned.
C34_Witness ==
    /\ WaitReturned
    /\ client.Timeout = 0
    /\ Len(polls) = 1
    /\ now > call.timeout
    /\ PollTerminal(1)
    /\ ret.err = ErrNil

\* Under Timeout 0 a wait whose first fetch found the record unfinished after
\* the deadline timed out after that one fetch.
C34_TimedOutAfterOneFetch ==
    /\ WaitReturned
    /\ client.Timeout = 0
    /\ Len(polls) = 1
    /\ ret.err = ErrTimeout

---------------------------------------------------------------------------
(* What a failed Authenticate leaves behind (under Spec) *)

\* C35: an Authenticate that fails (the request cannot be built, the
\* transport fails, the status is not 200, the body cannot be decoded) leaves
\* the session, token and expiry included, exactly as it was; the token and
\* the expiry are written together, by a successful Authenticate only, and
\* nothing else of the session is written by it.
C35_FailedAuthenticateWritesNothing ==
    [][(call'.op = "Authenticate") =>
          IF ret'.err # ErrNil
          THEN client' = client
          ELSE /\ Mountable(call'.ctx)
               /\ ~fetched'.failed /\ fetched'.status = StatusOK /\ fetched'.body.valid
               /\ client' = [client EXCEPT !.Token = fetched'.body.val,
                                           !.ExpiresAt = now' + call'.expires * Minute]]_vars

\* C35 witness: a session holding the token and expiry of an earlier
\* Authenticate still holds them after an Authenticate that was answered
\* with a decodable body under a status other than 200.
C35_Witness ==
    /\ Idle
    /\ ret.op = "Authenticate"
    /\ ret.err = ErrInvalidStatusCode
    /\ fetched.body.valid
    /\ granted.by = "Authenticate"
    /\ client.Token = granted.token
    /\ client.Token # fetched.body.val
    /\ client.ExpiresAt >= Minute
    /\ now > 0

---------------------------------------------------------------------------
(* The record WaitForBatchDone returns after its job waits (under SpecBatch) *)

\* C36: the batch record WaitForBatchDone(ID, true) holds when it enters its
\* job loop is the record of the terminal batch-status fetch; the job waits
\* leave it as it is; and that record is what a successful call returns, its
\* job summaries as the batch-status fetch listed them.
C36_ReturnsBatchRecordAsFetched ==
    /\ [][(call'.op = "WaitForBatchDone" /\ call'.waitJobs /\ pc = "batch_fetch" /\ pc' = "job_fetch") =>
             /\ call'.result = fetched'.body.val
             /\ call'.result.Status \in DoneOrError]_vars
    /\ [][(BatchAndJobs /\ pc \in {"job_fetch", "job_sleep"}) =>
             /\ call'.result = call.result
             /\ (pc' = "idle" /\ ret'.err = ErrNil) => ret'.val = call.result]_vars
    /\ []((BatchAndJobs /\ Returned({"WaitForBatchDone"}) /\ ret.err = ErrNil) =>
             /\ ret.val = call.result
             /\ \A k \in 1..Len(ret.val.Jobs) :
                   /\ ret.val.Jobs[k].JobID = polls[LastBatchPoll].jobs[k]
                   /\ ret.val.Jobs[k].Status = "processing")

\* C36 witness: a successful wait returned a record listing two jobs as
\* processing, both of which it had seen with status done or error.
C36_Witness ==
    /\ BatchAndJobs
    /\ Returned({"WaitForBatchDone"})
    /\ ret.err = ErrNil
    /\ Len(ret.val.Jobs) = 2
    /\ \A k \in 1..2 :
          /\ ret.val.Jobs[k].Status = "processing"
          /\ JobSeenTerminal(ret.val.Jobs[k].JobID)

---------------------------------------------------------------------------
(* Where the bearer token goes *)

\* Sessions holding the token "t1": after Authenticate at time 0, and after
\* Authenticate and SetAutoRefresh("id1", "s1", e) at time 0, so that one
\* second later the token counts as expired.
BearerSessions ==
    {Configured(API_TIMEOUT, POOLING_INTERVAL)} \cup
    {[Configured(API_TIMEOUT, POOLING_INTERVAL) EXCEPT
         !.ClientID = "id1", !.ClientSecret = "s1", !.Expires = e,
         !.AutoRefresh = TRUE, !.ExpiresAt = 0] : e \in 1..MaxExpires}

InitBearer ==
    /\ client \in BearerSessions
    /\ now = 1
    /\ pc = "idle"
    /\ call = SendCall("none", "", "", "", "", EmptyMap, {}, NoPuts)
    /\ log = <<>>
    /\ fetched = DoFailure(ZeroSignedUrl)
    /\ hist = NoHist
    /\ ret = NoRet
    /\ granted = [token |-> "t1", by |-> "Authenticate"]
    /\ polls = <<>>

\* The uploads called directly and the four submissions, each once, on a
\* session whose files can all be read.
NextBearer ==
    \/ /\ Fresh
       /\ \E ctx \in Ctxs, url \in UploadURLs, path \in AllFiles, resp \in PutResponses :
             CallUploadFile(ctx, url, path, AllFiles, resp)
    \/ /\ Fresh
       /\ \E ctx \in Ctxs, url \in UploadURLs, data \in AllFiles, resp \in PutResponses :
             CallUploadFileBase64(ctx, url, data, resp)
    \/ /\ Fresh
       /\ \E p \in ParamMaps, a \in RefreshAnswers(client, now), r \in SignedAnswers,
             puts \in PutSequences :
             CallSendJob(Background, "cnh", DocumentFile, FacematchFile, ExtraFile,
                         Metadata("map", 0), p, AllFiles, a, r, puts)
    \/ /\ Fresh
       /\ \E p \in ParamMaps, a \in RefreshAnswers(client, now), r \in SignedAnswers,
             puts \in PutSequences :
             CallSendJobBase64(Background, "cnh", DocumentFile, FacematchFile, ExtraFile,
                               Metadata("map", 0), p, a, r, puts)
    \/ /\ Fresh
       /\ \E a \in RefreshAnswers(client, now), r \in SignedAnswers, puts \in PutSequences :
             CallSendBatch(Background, "cnh", DocumentFile, Metadata("list", 0), EmptyMap,
                           AllFiles, a, r, puts)
    \/ /\ Fresh
       /\ \E a \in RefreshAnswers(client, now), r \in SignedAnswers, puts \in PutSequences :
             CallSendBatchBase64(Background, "cnh", DocumentFile, Metadata("list", 0),
                                 EmptyMap, a, r, puts)

SpecBearer == InitBearer /\ [][NextBearer]_vars

IsPut(r) == r.method = "PUT"

\* A request to the API: built by request, its path under BaseURL.
IsApiRequest(r) == r.method \in {"GET", "POST"} /\ r.url[1] = "ocr"

\* C37: a PUT to a presigned URL carries no Authorization header, whoever
\* makes it (UploadFile, UploadFileBase64, the four submissions); only
\* requests to the API carry a bearer token; an upload called directly makes
\* no authentication request even with auto-refresh on and the token expired,
\* and in a submission the only authentication request is the one ahead of
\* the signed-URL POST.
C37_NoBearerOnUploads ==
    /\ \A i \in 1..Len(log) :
          /\ IsPut(log[i]) => log[i].auth = NoAuth
          /\ log[i].auth # NoAuth => IsApiRequest(log[i])
          /\ IsAuthRequest(log[i]) => (i = 1 /\ log[i].auth = NoAuth)
    /\ ret.op \in UploadCallOps =>
          /\ AuthRequestsIn(log) = 0
          /\ \A i \in 1..Len(log) : IsPut(log[i])
          /\ granted = [token |-> "t1", by |-> "Authenticate"]
    /\ (ret.op \in UploadOps /\ AuthRequestsIn(log) = 1) =>
          (Len(log) >= 2 => IsApiRequest(log[2]))

\* C37 witness: on a session with auto-refresh on and the token expired, a
\* SendJob authenticated, posted with the new token and made its three
\* uploads without Authorization header.
C37_Witness ==
    /\ client.AutoRefresh
    /\ ret.op = "SendJob"
    /\ ret.err = ErrNil
    /\ Len(log) = 5
    /\ IsAuthRequest(log[1])
    /\ log[2].auth = granted.token
    /\ granted.by = "autoAuthenticate"
    /\ \A i \in 3..5 : IsPut(log[i]) /\ log[i].auth = NoAuth

\* On the same session an UploadFile made its PUT and nothing else.
C37_UploadWithExpiredToken ==
    /\ client.AutoRefresh
    /\ now > client.ExpiresAt
    /\ ret.op = "UploadFile"
    /\ ret.err = ErrNil
    /\ Len(log) = 1
    /\ log[1].auth = NoAuth

---------------------------------------------------------------------------
(* Termination of GetJobs *)

AnyGetJobsFetch ==
    \E a \in AuthAnswers(client, now), r \in JobPageAnswers(Len(polls) + 1) : GetJobsFetch(a, r)

\* GetJobs against an API that has MaxPages pages at most and answers every
\* request.
SpecJobsFair == InitBatch /\ [][NextJobs]_vars /\ WF_vars(AnyGetJobsFetch)

\* The last page request came back with a page carrying a token.
LastPageHasToken ==
    Len(polls) > 0 /\ PageFetched(Len(polls)) /\ polls[Len(polls)].id # ""

\* C38: GetJobs returns at the first page whose nextPageToken is empty and
\* makes no request after it; a failed request ends it with the error and no
\* job list, whatever the pages before held; after any number of pages that
\* came with a token it asks for the next (it counts no pages); and against
\* an API that answers every request and runs out of pages it returns.
C38_GetJobsStopsAtEmptyToken ==
    /\ [][(Returned({"GetJobs"})) => (log' = log /\ polls' = polls /\ ret' = ret)]_vars
    /\ []((call.op = "GetJobs" /\ Len(polls) > 0) =>
             /\ (pc = "jobs_fetch") = LastPageHasToken
             /\ Returned({"GetJobs"}) = ~LastPageHasToken
             /\ (Returned({"GetJobs"}) /\ ~PageFetched(Len(polls))) =>
                   /\ ret.err = polls[Len(polls)].err
                   /\ ret.val = <<>>
             /\ (Returned({"GetJobs"}) /\ PageFetched(Len(polls))) =>
                   /\ ret.err = ErrNil
                   /\ polls[Len(polls)].id = ""
                   /\ \A i \in 1..(Len(polls) - 1) : polls[i].id # "")
    /\ (pc = "jobs_fetch") ~> Returned({"GetJobs"})

\* C38 witness: after MaxPages - 1 pages with a token and jobs, the request
\* for page MaxPages failed: GetJobs returned the error and no job.
C38_Witness ==
    /\ Returned({"GetJobs"})
    /\ Len(polls) = MaxPages
    /\ Len(log) = MaxPages
    /\ \A i \in 1..(MaxPages - 1) : PageFetched(i) /\ polls[i].id # "" /\ polls[i].jobs # <<>>
    /\ polls[MaxPages].err = ErrInvalidStatusCode
    /\ ret.err = ErrInvalidStatusCode
    /\ ret.val = <<>>

\* GetJobs asks for page MaxPages after MaxPages - 1 pages with a token.
C38_StillRequestingAtLastPage ==
    /\ call.op = "GetJobs"
    /\ pc = "jobs_fetch"
    /\ Len(polls) = MaxPages - 1

====
